---- MODULE Spec2Model ----
(***************************************************************************)
(* pyCage: the environment bootstrap (setupUvAsync, createVenvIfNeeded),   *)
(* the terminal session manager (getOrCreateTerminal,                      *)
(* setupTerminalEnvironment), the tool locator and installer               *)
(* (checkUvInstalled, getUvCommand, installUv), the ranked package search  *)
(* (showPopularQuickPick, getProjectNameFromQuickPick, the two scoring     *)
(* functions) and activate with the command handlers, modelled as state    *)
(* machines whose steps are the synchronous runs between two await points  *)
(* or event callbacks.                                                     *)
(***************************************************************************)
EXTENDS Integers, Sequences, FiniteSets, TLC

\* src/src/managers/venvManager.js:76   const maxAttempts = 15
maxAttempts == 15

\* The two call sites of setupUvAsync: activate() and the 'Install uv' choice
\* of the install-to-venv command.
Callers == {"startup", "command"}

VARIABLES
    \* ---- environment (oracles and host) ----
    workspaceOpen,            \* vscode.workspace.workspaceFolders has a first folder
    venvDir,                  \* fs.existsSync(<workspace>/.venv)
    python,                   \* fs.existsSync(<workspace>/.venv/bin/python)
    uvPresent,                \* some 'uv --version' probe responds
    terms,                    \* host terminals in creation order: status of each
    \* ---- venvManager.js module state ----
    venvCreationInProgress,
    \* ---- one record per setupUvAsync invocation ----
    pc,                       \* await point the invocation is suspended at
    terminal,                 \* setupUvAsync 'terminal' (index into terms, 0: none)
    venvExists,               \* setupUvAsync 'venvExists'
    attempt,                  \* createVenvIfNeeded loop variable
    venvCreated,              \* createVenvIfNeeded local
    pythonExists,             \* createVenvIfNeeded local
    freshTerminal,            \* createVenvIfNeeded catch-block local
    result,                   \* value setupUvAsync resolved to ("none": pending)
    \* ---- observation ----
    sent,                     \* lines each invocation passed to sendText without a throw
    notes,                    \* notifications each invocation showed
    polls,                    \* file-system polls each invocation performed
    exitPath,                 \* the path on which createVenvIfNeeded returned
    overlap,                  \* an invocation started while the other was running
    \* ---- tool locator (a single checkUvInstalled / getUvCommand call) ----
    locFn,                    \* "idle", "check" (checkUvInstalled) or "cmd" (getUvCommand)
    probeOk,                  \* outcome of each probe: 0 is PATH, 1..4 the well-known paths
    pending,                  \* probes launched whose callback has not run
    foundPath,                \* 'foundPath' (0: null)
    checkedPaths,             \* 'checkedPaths'
    resolved,                 \* values passed to resolve(), in call order
    \* ---- tool installer (installUv calls) ----
    osInfo,                   \* the record getOperatingSystem() returned
    insPc,                    \* each call: "idle", "exec" (process running), "returned"
    installCommand,           \* each call's 'installCommand' ("none": unassigned)
    execs,                    \* processes each call started
    exitError,                \* how each call's process exited ("none": it has not)
    insResolved,              \* values each call passed to resolve()
    insNotes,                 \* notifications each call showed
    \* ---- terminal session manager against a host that can fail ----
    hostTerms,                \* terminals the host created: name, status, listed
    now,                      \* Date.now()
    tmCalls,                  \* getOrCreateTerminal calls made
    tmLast,                   \* what the last getOrCreateTerminal call saw and did
    \* ---- setupTerminalEnvironment(terminal, uvPath) after getUvCommand ----
    homedir,                  \* os.homedir(), as a sequence of characters
    envTermOk,                \* terminal.sendText accepts the text (does not throw)
    envPc,                    \* "waiting" for getUvCommand, or "done"
    envUvPath,                \* the 'uvPath' argument
    pathSent,                 \* directory lists of the export lines sent
    \* ---- one label: built by updateItems, read by getProjectNameFromQuickPick ----
    lblRank,                  \* 'index + 1'
    lblName,                  \* 'pkg.project', as a sequence of characters
    lblItem,                  \* the quick-pick item handed over (<< >>: none yet)
    lblOut,                   \* what getProjectNameFromQuickPick returned (<< >>: null)
    lblPc,                    \* "input", "labelled", "stripped", "rawStripped"
    \* ---- showPopularQuickPick(names, placeHolder) and the command reading it ----
    names,                    \* the package records: project, download_count
    scaling,                  \* the download scaling of the module in use
    weightedScores,           \* '_weightedScore' of each record (<< >>: not set)
    qpValue,                  \* the text typed into the quick pick
    qpItems,                  \* 'qp.items'
    qpPc,                     \* "open", "accepted", "hidden"
    qpResolved,               \* what the promise resolved to (<< >>: undefined)
    resolveCalls,             \* calls of the promise's 'resolve'
    selectedLibrary,          \* the command's 'selectedLibrary' (<< >>: none)
    \* ---- one call of calculateKeywordSimilarity(searchTerm, packageName) ----
    simTerm,                  \* 'searchTerm', as a sequence of characters
    simName,                  \* 'packageName', as a sequence of characters
    simScore,                 \* the value returned, as a fraction <<num, den>>
    simPc,                    \* "idle", "call", "returned"
    \* ---- activate(context) and one command invocation at a time ----
    workspaceFolder,          \* vscode.workspace.workspaceFolders has a first folder
    extPc,                    \* "inactive", "active": activate has registered the commands
    fetched,                  \* how the GET of activate ended ("none": not yet)
    extNotes,                 \* messages activate and its setupUvAsync have shown
    startupBoot,              \* setupUvAsync of activate: "none", "running", "done"
    bootLines,                \* lines the setupUvAsync runs have sent to terminals
    cmd,                      \* the command invoked ("none": none yet)
    cmdPc,                    \* where the handler is suspended, "returned" or "threw"
    cmdSent,                  \* lines the invocation has sent to terminals
    cmdNotes,                 \* messages the invocation has shown
    prompts,                  \* quick picks the invocation has shown
    invocations,              \* command invocations made
    command,                  \* the 'command' argument of executeUvCommand
    answer                    \* the answer to the 'uv is not installed' warning

envVars == <<workspaceOpen, venvDir, python, uvPresent, terms>>
invVars == <<pc, terminal, venvExists, attempt, venvCreated, pythonExists,
             freshTerminal, result>>
obsVars == <<sent, notes, polls, exitPath, overlap>>
locVars == <<locFn, probeOk, pending, foundPath, checkedPaths, resolved>>
insVars == <<osInfo, insPc, installCommand, execs, exitError, insResolved, insNotes>>
bootVars == <<envVars, venvCreationInProgress, invVars, obsVars>>
\* the state of the parts that the bootstrap and the locator steps leave alone
tmVars == <<hostTerms, now, tmCalls, tmLast>>
pathVars == <<homedir, envTermOk, envPc, envUvPath, pathSent>>
lblVars == <<lblRank, lblName, lblItem, lblOut, lblPc>>
qpVars == <<names, scaling, weightedScores, qpValue, qpItems, qpPc, qpResolved, resolveCalls,
           selectedLibrary>>
simVars == <<simTerm, simName, simScore, simPc>>
\* the parts above the managers: scoring calls
cmdVars == <<workspaceFolder, extPc, fetched, extNotes, startupBoot, bootLines, cmd, cmdPc,
            cmdSent, cmdNotes, prompts, invocations, command, answer>>
appVars == <<simVars, cmdVars>>
libVars == <<insVars, tmVars, pathVars, lblVars, qpVars, appVars>>
vars == <<bootVars, locVars, libVars>>

\* installUv calls in flight at the same time
MaxInstallCalls == 3
InstallCalls == 1..MaxInstallCalls

\* values of os.platform() the extension is loaded on
Platforms == {"win32", "darwin", "linux", "freebsd", "openbsd"}

\* getOperatingSystem() for a platform (the 'readable' label left out)
getOperatingSystem(platform) ==
    [platform |-> platform,
     isWindows |-> platform = "win32",
     isMacOS |-> platform = "darwin",
     isLinux |-> platform = "linux"]

\* 'activationCommand' (venvManager.js:23-31 and 111-119), the line sent being
\* '<activationCommand> && echo "..."'
activationCommand(o) ==
    IF o.isWindows THEN ".venv\\Scripts\\activate" ELSE "source .venv/bin/activate"

\* no installUv call made
NoInstallCalls ==
    /\ insPc = [c \in InstallCalls |-> "idle"]
    /\ installCommand = [c \in InstallCalls |-> "none"]
    /\ execs = [c \in InstallCalls |-> 0]
    /\ exitError = [c \in InstallCalls |-> "none"]
    /\ insResolved = [c \in InstallCalls |-> << >>]
    /\ insNotes = [c \in InstallCalls |-> << >>]

\* no installUv call made, on Linux
IdleInstaller ==
    /\ osInfo = getOperatingSystem("linux")
    /\ NoInstallCalls

\* getOrCreateTerminal calls made, and the values Date.now() runs through
MaxTerminalCalls == 3
MaxNow == 1

\* tmLast before the first call
NoCall == [first |-> 0, probe |-> "none", failed |-> FALSE, created |-> 0,
           returned |-> 0, threw |-> FALSE]

\* no getOrCreateTerminal call made, no terminal open
IdleTerminal ==
    /\ hostTerms = << >>
    /\ now = 0
    /\ tmCalls = 0
    /\ tmLast = NoCall

\* no setupTerminalEnvironment call made
IdlePathEnv ==
    /\ homedir = << >>
    /\ envTermOk = TRUE
    /\ envPc = "done"
    /\ envUvPath = << >>
    /\ pathSent = << >>

\* no label built
IdleLabel ==
    /\ lblRank = 1
    /\ lblName = << >>
    /\ lblItem = << >>
    /\ lblOut = << >>
    /\ lblPc = "stripped"

\* no quick pick shown
IdleSearch ==
    /\ names = << >>
    /\ scaling = "square"
    /\ weightedScores = << >>
    /\ qpValue = << >>
    /\ qpItems = << >>
    /\ qpPc = "hidden"
    /\ qpResolved = << >>
    /\ resolveCalls = 0
    /\ selectedLibrary = << >>

\* no scoring call made
IdleSimilarity ==
    /\ simTerm = << >>
    /\ simName = << >>
    /\ simScore = <<0, 1>>
    /\ simPc = "idle"

\* extension not activated, no command invoked
IdleCommands ==
    /\ workspaceFolder = TRUE
    /\ extPc = "inactive"
    /\ fetched = "none"
    /\ extNotes = << >>
    /\ startupBoot = "none"
    /\ bootLines = << >>
    /\ cmd = "none"
    /\ cmdPc = "idle"
    /\ cmdSent = << >>
    /\ cmdNotes = << >>
    /\ prompts = 0
    /\ invocations = 0
    /\ command = [line |-> "", pkg |-> << >>]
    /\ answer = "none"

IdleApp == IdleSimilarity /\ IdleCommands

IdleLibrary ==
    IdleInstaller /\ IdleTerminal /\ IdlePathEnv /\ IdleLabel /\ IdleSearch /\ IdleApp

\* no setupUvAsync invocation made, a workspace without .venv and without uv
IdleBootstrap ==
    /\ workspaceOpen = TRUE /\ venvDir = FALSE /\ python = FALSE /\ uvPresent = FALSE
    /\ terms = << >>
    /\ venvCreationInProgress = FALSE
    /\ pc = [i \in Callers |-> "idle"]
    /\ terminal = [i \in Callers |-> 0]
    /\ venvExists = [i \in Callers |-> FALSE]
    /\ attempt = [i \in Callers |-> 0]
    /\ venvCreated = [i \in Callers |-> FALSE]
    /\ pythonExists = [i \in Callers |-> FALSE]
    /\ freshTerminal = [i \in Callers |-> 0]
    /\ result = [i \in Callers |-> "none"]
    /\ sent = [i \in Callers |-> << >>]
    /\ notes = [i \in Callers |-> << >>]
    /\ polls = [i \in Callers |-> 0]
    /\ exitPath = [i \in Callers |-> "none"]
    /\ overlap = FALSE

\* no checkUvInstalled / getUvCommand call made
IdleLocator ==
    /\ locFn = "idle"
    /\ probeOk = [p \in 0..4 |-> FALSE]
    /\ pending = {}
    /\ foundPath = 0
    /\ checkedPaths = 0
    /\ resolved = << >>

----------------------------------------------------------------------------
\* Terminal host

\* window.terminals: terminals the host has not closed yet
InWindow(k) == terms[k] \in {"live", "disposed"}

\* sendText / show on a handle the extension disposed throw
Throws(k) == terms[k] \in {"disposed", "closedDisposed"}

\* terminalManager getOrCreateTerminal: index of the terminal returned
ExistingTerminal == IF \E k \in 1..Len(terms) : InWindow(k)
                    THEN CHOOSE k \in 1..Len(terms) :
                           InWindow(k) /\ \A j \in 1..(k-1) : ~InWindow(j)
                    ELSE 0

getOrCreateTerminal == IF ExistingTerminal # 0 THEN ExistingTerminal ELSE Len(terms) + 1

TermsAfterGet == IF ExistingTerminal # 0 THEN terms ELSE Append(terms, "live")

\* terminal.dispose() guarded by exitStatus === undefined
TermsAfterDispose(k) ==
    IF k # 0 /\ InWindow(k) THEN [terms EXCEPT ![k] = "disposed"] ELSE terms

----------------------------------------------------------------------------
\* Environment bootstrap

TypeOK ==
    /\ workspaceOpen \in BOOLEAN /\ venvDir \in BOOLEAN /\ python \in BOOLEAN
    /\ uvPresent \in BOOLEAN
    /\ venvCreationInProgress \in BOOLEAN
    /\ \A i \in Callers : attempt[i] \in 0..maxAttempts /\ polls[i] \in 0..maxAttempts

\* the state in which the extension is loaded: nothing invoked, any file system
InitBootstrap ==
    /\ workspaceOpen \in BOOLEAN
    /\ venvDir \in BOOLEAN
    /\ python \in BOOLEAN
    /\ python => venvDir
    /\ uvPresent \in BOOLEAN
    /\ terms = << >>
    /\ venvCreationInProgress = FALSE
    /\ pc = [i \in Callers |-> "idle"]
    /\ terminal = [i \in Callers |-> 0]
    /\ venvExists = [i \in Callers |-> FALSE]
    /\ attempt = [i \in Callers |-> 0]
    /\ venvCreated = [i \in Callers |-> FALSE]
    /\ pythonExists = [i \in Callers |-> FALSE]
    /\ freshTerminal = [i \in Callers |-> 0]
    /\ result = [i \in Callers |-> "none"]
    /\ sent = [i \in Callers |-> << >>]
    /\ notes = [i \in Callers |-> << >>]
    /\ polls = [i \in Callers |-> 0]
    /\ exitPath = [i \in Callers |-> "none"]
    /\ overlap = FALSE

Init ==
    /\ InitBootstrap
    /\ IdleLocator
    /\ IdleLibrary

\* the venv outcome decides the value: only an activated environment gives true
Return_ByVenvOutcome(i, r, path) ==
    /\ pc' = [pc EXCEPT ![i] = "done"]
    /\ result' = [result EXCEPT ![i] = r /\ path \in {"none", "existing", "ready"}]
    /\ exitPath' = [exitPath EXCEPT ![i] = path]

\* setupUvAsync returns r; createVenvIfNeeded (when it ran) returned on path
Return(i, r, path) ==
    /\ pc' = [pc EXCEPT ![i] = "done"]
    /\ result' = [result EXCEPT ![i] = r]
    /\ exitPath' = [exitPath EXCEPT ![i] = path]

\* setupUvAsync catch block (packageManager.js:68-72)
SetupCatch(i, n, path) ==
    /\ notes' = [notes EXCEPT ![i] = Append(n, "setupError")]
    /\ Return(i, FALSE, path)

\* setupUvAsync up to 'await checkUvInstalled()'
Start(i) ==
    /\ pc[i] = "idle"
    /\ terms' = TermsAfterGet
    /\ terminal' = [terminal EXCEPT ![i] = getOrCreateTerminal]
    /\ overlap' = (overlap \/ \E j \in Callers \ {i} : pc[j] \notin {"idle", "done"})
    /\ IF ~workspaceOpen
       THEN \* workspaceFolder is null: workspaceFolder.uri throws a TypeError
            /\ SetupCatch(i, notes[i], "none")
            /\ UNCHANGED venvExists
       ELSE /\ venvExists' = [venvExists EXCEPT ![i] = venvDir]
            /\ pc' = [pc EXCEPT ![i] = "checkUv"]
            /\ UNCHANGED <<notes, result, exitPath>>
    /\ UNCHANGED <<workspaceOpen, venvDir, python, uvPresent, venvCreationInProgress,
                   attempt, venvCreated, pythonExists, freshTerminal, sent, polls,
                   locVars, libVars>>

\* the guard test left out: every call enters the try
GuardHeld_Never == FALSE

\* 'if (venvCreationInProgress)' (venvManager.js:42)
GuardHeld == venvCreationInProgress

\* the assignment left out: the flag is never raised
GuardAfterTry_Unset == FALSE

\* 'venvCreationInProgress = true', first statement of the try (venvManager.js:48)
GuardAfterTry == TRUE

\* the reset left out: the flag keeps its value
GuardAfterFinally_Kept == venvCreationInProgress

\* 'venvCreationInProgress = false' of the finally block (venvManager.js:147-149)
GuardAfterFinally == FALSE

\* the re-check left out
RecheckExists_Skipped == FALSE

\* 'fs.existsSync(venvPath.fsPath)' inside the try (venvManager.js:59-63)
RecheckExists == venvDir

\* the environment found at the re-check treated like the one found at the start
RecheckLines_Activating == << activationCommand(osInfo) >>

\* the lines sent when the re-check finds .venv (venvManager.js:60-63): it logs and
\* returns
RecheckLines == << >>

\* createVenvIfNeeded(terminal, venvExists) from its call to its first await
\* (or to its return), followed by the rest of setupUvAsync when it returned.
\* n: the notifications of invocation i including the one shown before the call.
createVenvIfNeeded(i, n) ==
    IF venvExists[i]
    THEN /\ UNCHANGED venvCreationInProgress
         /\ IF workspaceOpen
            THEN IF Throws(terminal[i])
                 THEN \* sendText throws outside the try: the call rejects
                      /\ SetupCatch(i, n, "threw")
                      /\ UNCHANGED sent
                 ELSE /\ sent' = [sent EXCEPT ![i] = Append(@, activationCommand(osInfo))]
                      /\ notes' = [notes EXCEPT ![i] = Append(n, "activated")]
                      /\ Return(i, TRUE, "existing")
            ELSE /\ notes' = [notes EXCEPT ![i] = n]
                 /\ Return(i, TRUE, "existing")
                 /\ UNCHANGED sent
    ELSE IF GuardHeld
    THEN /\ notes' = [notes EXCEPT ![i] = n]
         /\ Return(i, TRUE, "inProgress")
         /\ UNCHANGED <<venvCreationInProgress, sent>>
    ELSE \* try { venvCreationInProgress = true; ...
         IF ~workspaceOpen
         THEN /\ notes' = [notes EXCEPT ![i] = Append(n, "noWorkspace")]
              /\ venvCreationInProgress' = GuardAfterFinally
              /\ Return(i, TRUE, "noWorkspace")
              /\ UNCHANGED sent
         ELSE IF RecheckExists
         THEN /\ notes' = [notes EXCEPT ![i] = n]
              /\ venvCreationInProgress' = GuardAfterFinally
              /\ Return(i, TRUE, "recheck")
              /\ sent' = [sent EXCEPT ![i] = @ \o RecheckLines]
         ELSE /\ notes' = [notes EXCEPT ![i] = n]
              /\ venvCreationInProgress' = GuardAfterTry
              /\ pc' = [pc EXCEPT ![i] = "getUvCommand"]  \* await getUvCommand()
              /\ UNCHANGED <<sent, result, exitPath>>

\* the first check left out: the tool is taken to be there
uvInstalled_Assumed == TRUE

\* 'const uvInstalled = await checkUvInstalled()' (packageManager.js:20): the value
\* the check resolves to
uvInstalled == uvPresent

\* the verification left out: a successful install is taken as proof
uvNowInstalled_Assumed == TRUE

\* 'const uvNowInstalled = await checkUvInstalled()' (packageManager.js:46)
uvNowInstalled == uvPresent

\* 'await checkUvInstalled()' (packageManager.js:20) resolves
CheckUvDone(i) ==
    /\ pc[i] = "checkUv"
    /\ IF uvInstalled
       THEN createVenvIfNeeded(i, Append(notes[i], "uvAlready"))
       ELSE /\ notes' = [notes EXCEPT ![i] = Append(@, "installing")]
            /\ pc' = [pc EXCEPT ![i] = "installUv"]        \* await installUv(osInfo)
            /\ UNCHANGED <<venvCreationInProgress, sent, result, exitPath>>
    /\ UNCHANGED <<envVars, terminal, venvExists, attempt, venvCreated, pythonExists,
                   freshTerminal, polls, overlap, locVars, libVars>>

\* the installer process exits; ok: without error (uvManager.js:72-86, on a
\* platform installUv supports). A successful exit does not imply that the tool
\* responds afterwards.
InstallDone(i, ok) ==
    /\ pc[i] = "installUv"
    /\ IF ok
       THEN /\ uvPresent' \in {TRUE, uvPresent}
            /\ terms' = TermsAfterDispose(terminal[i])
            /\ pc' = [pc EXCEPT ![i] = "restart"]          \* await setTimeout 500
            /\ UNCHANGED <<notes, result, exitPath>>
       ELSE /\ notes' = [notes EXCEPT ![i] = @ \o <<"installError", "installFailed">>]
            /\ Return(i, FALSE, "none")
            /\ UNCHANGED <<uvPresent, terms>>
    /\ UNCHANGED <<workspaceOpen, venvDir, python, venvCreationInProgress, terminal,
                   venvExists, attempt, venvCreated, pythonExists, freshTerminal,
                   sent, polls, overlap, locVars, libVars>>

\* the 500 ms timer fires: terminal = getOrCreateTerminal(); await checkUvInstalled()
RestartDone(i) ==
    /\ pc[i] = "restart"
    /\ terms' = TermsAfterGet
    /\ terminal' = [terminal EXCEPT ![i] = getOrCreateTerminal]
    /\ pc' = [pc EXCEPT ![i] = "verifyUv"]
    /\ UNCHANGED <<workspaceOpen, venvDir, python, uvPresent, venvCreationInProgress,
                   venvExists, attempt, venvCreated, pythonExists, freshTerminal,
                   result, obsVars, locVars, libVars>>

\* the second 'await checkUvInstalled()' (packageManager.js:46) resolves
VerifyDone(i) ==
    /\ pc[i] = "verifyUv"
    /\ IF uvNowInstalled
       THEN createVenvIfNeeded(i, Append(notes[i], "installed"))
       ELSE /\ notes' = [notes EXCEPT ![i] = Append(@, "notFound")]
            /\ Return(i, FALSE, "none")
            /\ UNCHANGED <<venvCreationInProgress, sent>>
    /\ UNCHANGED <<envVars, terminal, venvExists, attempt, venvCreated, pythonExists,
                   freshTerminal, polls, overlap, locVars, libVars>>

\* createVenvIfNeeded catch block up to 'await getUvCommand()' (venvManager.js:135-140)
Catch(i) ==
    /\ terms' = TermsAfterGet
    /\ freshTerminal' = [freshTerminal EXCEPT ![i] = getOrCreateTerminal]
    /\ pc' = [pc EXCEPT ![i] = "fallback"]

\* the creation command sent before the terminal's PATH is extended
DispatchLines_VenvFirst == <<"uv venv", "export PATH">>

\* setupTerminalEnvironment(terminal, uvCommand), then sendText('<uv> venv')
\* (venvManager.js:67-68)
DispatchLines == <<"export PATH", "uv venv">>

\* 'await getUvCommand()' (venvManager.js:66) resolves: PATH export, '<uv> venv',
\* show, then the first one-second timer of the polling loop
GetUvCommandDone(i) ==
    /\ pc[i] = "getUvCommand"
    /\ IF Throws(terminal[i])
       THEN \* setupTerminalEnvironment swallows its throw; sendText('<uv> venv') throws
            /\ Catch(i)
            /\ UNCHANGED <<sent, attempt>>
       ELSE /\ sent' = [sent EXCEPT ![i] = @ \o DispatchLines]
            /\ attempt' = [attempt EXCEPT ![i] = 0]
            /\ pc' = [pc EXCEPT ![i] = "poll"]
            /\ UNCHANGED <<terms, freshTerminal>>
    /\ UNCHANGED <<workspaceOpen, venvDir, python, uvPresent, venvCreationInProgress,
                   terminal, venvExists, venvCreated, pythonExists, result, notes,
                   polls, exitPath, overlap, locVars, libVars>>

\* no bound: the loop only ends on readiness
LoopContinues_Forever(a) == TRUE

\* off by one: 'attempt <= maxAttempts'
LoopContinues_OffByOne(a) == a <= maxAttempts

\* the loop condition 'attempt < maxAttempts' after attempt++
LoopContinues(a) == a < maxAttempts

\* every timeout reported as a warning
TimeoutNote_AlwaysWarning(vc) == "venvWarning"

\* the notification after a loop that ended without both observed
\* (venvManager.js:127-133); vc: 'venvCreated'
TimeoutNote(vc) == IF vc THEN "venvWarning" ELSE "venvError"

\* a one-second timer of the polling loop fires (venvManager.js:79-133): one poll,
\* then either the next timer or the code after the loop and the finally block
PollTimer(i) ==
    /\ pc[i] = "poll"
    /\ polls' = [polls EXCEPT ![i] = @ + 1]
    /\ LET vc == venvDir
           pe == IF vc THEN python ELSE pythonExists[i]
           ready == vc /\ pe
           a == IF ready THEN attempt[i] ELSE attempt[i] + 1
       IN /\ venvCreated' = [venvCreated EXCEPT ![i] = vc]
          /\ pythonExists' = [pythonExists EXCEPT ![i] = pe]
          /\ attempt' = [attempt EXCEPT ![i] = a]
          /\ IF ~ready /\ LoopContinues(a)
             THEN UNCHANGED <<pc, venvCreationInProgress, terms, freshTerminal,
                              result, sent, notes, exitPath>>
             ELSE IF ready
             THEN IF Throws(terminal[i])
                  THEN \* the activation sendText throws
                       /\ Catch(i)
                       /\ UNCHANGED <<venvCreationInProgress, result, sent, notes,
                                      exitPath>>
                  ELSE /\ sent' = [sent EXCEPT ![i] = Append(@, activationCommand(osInfo))]
                       /\ notes' = [notes EXCEPT ![i] = Append(@, "created")]
                       /\ venvCreationInProgress' = GuardAfterFinally
                       /\ Return(i, TRUE, "ready")
                       /\ UNCHANGED <<terms, freshTerminal>>
             ELSE /\ notes' = [notes EXCEPT ![i] = Append(@, TimeoutNote(vc))]
                  /\ venvCreationInProgress' = GuardAfterFinally
                  /\ Return(i, TRUE, "timeout")
                  /\ UNCHANGED <<terms, freshTerminal, sent>>
    /\ UNCHANGED <<workspaceOpen, venvDir, python, uvPresent, terminal, venvExists,
                   overlap, locVars, libVars>>

\* the catch block running the success path's activation as well
FallbackLines_Activating(f) ==
    IF Throws(f) THEN << >> ELSE <<"export PATH", "uv venv", activationCommand(osInfo)>>

\* the lines the catch block sends to freshTerminal f (venvManager.js:141-146):
\* none when sendText throws, which the inner catch swallows
FallbackLines(f) == IF Throws(f) THEN << >> ELSE <<"export PATH", "uv venv">>

\* 'await getUvCommand()' of the catch block resolves (venvManager.js:140-149)
FallbackDone(i) ==
    /\ pc[i] = "fallback"
    /\ sent' = [sent EXCEPT ![i] = @ \o FallbackLines(freshTerminal[i])]
    /\ venvCreationInProgress' = GuardAfterFinally
    /\ Return(i, TRUE, "exception")
    /\ UNCHANGED <<envVars, terminal, venvExists, attempt, venvCreated, pythonExists,
                   freshTerminal, notes, polls, overlap, locVars, libVars>>

\* ---- environment steps ----

\* an external tool (the dispatched 'uv venv', or anything else) creates .venv
CreateDir ==
    /\ ~venvDir
    /\ venvDir' = TRUE
    /\ UNCHANGED <<workspaceOpen, python, uvPresent, terms, venvCreationInProgress,
                   invVars, obsVars, locVars, libVars>>

CreatePython ==
    /\ venvDir /\ ~python
    /\ python' = TRUE
    /\ UNCHANGED <<workspaceOpen, venvDir, uvPresent, terms, venvCreationInProgress,
                   invVars, obsVars, locVars, libVars>>

RemoveVenv ==
    /\ venvDir
    /\ venvDir' = FALSE
    /\ python' = FALSE
    /\ UNCHANGED <<workspaceOpen, uvPresent, terms, venvCreationInProgress,
                   invVars, obsVars, locVars, libVars>>

CloseWorkspace ==
    /\ workspaceOpen
    /\ workspaceOpen' = FALSE
    /\ UNCHANGED <<venvDir, python, uvPresent, terms, venvCreationInProgress,
                   invVars, obsVars, locVars, libVars>>

\* the host closes terminal k: the user closed it, or a dispose() took effect
TerminalClosed(k) ==
    /\ InWindow(k)
    /\ terms' = [terms EXCEPT ![k] = IF @ = "live" THEN "closed" ELSE "closedDisposed"]
    /\ UNCHANGED <<workspaceOpen, venvDir, python, uvPresent, venvCreationInProgress,
                   invVars, obsVars, locVars, libVars>>

Next ==
    \/ \E i \in Callers : Start(i)
    \/ \E i \in Callers : CheckUvDone(i)
    \/ \E i \in Callers, ok \in BOOLEAN : InstallDone(i, ok)
    \/ \E i \in Callers : RestartDone(i)
    \/ \E i \in Callers : VerifyDone(i)
    \/ \E i \in Callers : GetUvCommandDone(i)
    \/ \E i \in Callers : PollTimer(i)
    \/ \E i \in Callers : FallbackDone(i)
    \/ CreateDir
    \/ CreatePython
    \/ RemoveVenv
    \/ CloseWorkspace
    \/ \E k \in 1..Len(terms) : TerminalClosed(k)

Spec == Init /\ [][Next]_vars

\* the steps of invocation i that a process callback or a timer triggers: each of
\* its awaits is on a child process exit (checkUvInstalled, installUv,
\* getUvCommand) or on setTimeout
Resume(i) ==
    \/ CheckUvDone(i)
    \/ \E ok \in BOOLEAN : InstallDone(i, ok)
    \/ RestartDone(i)
    \/ VerifyDone(i)
    \/ GetUvCommandDone(i)
    \/ PollTimer(i)
    \/ FallbackDone(i)

\* the bootstrap while the user closes no terminal
NextFair ==
    \/ \E i \in Callers : Start(i)
    \/ \E i \in Callers : Resume(i)
    \/ CreateDir
    \/ CreatePython
    \/ RemoveVenv
    \/ CloseWorkspace

\* the extension loaded on any platform installUv has an installer for
\* (uvManager.js:58-63)
InitFair ==
    /\ InitBootstrap
    /\ IdleLocator
    /\ osInfo \in {getOperatingSystem(p) : p \in {"win32", "darwin", "linux"}}
    /\ NoInstallCalls
    /\ IdleTerminal /\ IdlePathEnv /\ IdleLabel /\ IdleSearch /\ IdleApp

\* the bootstrap on a host whose process callbacks and timers eventually fire
SpecFair == InitFair /\ [][NextFair]_vars /\ \A i \in Callers : WF_vars(Resume(i))

----------------------------------------------------------------------------
\* Tool locator: one call of checkUvInstalled or getUvCommand and the callbacks
\* of the exec() probes it launches, in every completion order.

\* uvManager.js:15-20 and 104-109
commonPaths == << "~/.cargo/bin/uv", "~/.local/bin/uv", "/usr/local/bin/uv",
                  "/opt/homebrew/bin/uv" >>

PathProbes == 1..Len(commonPaths)

\* the call itself: exec('uv --version', ...) is launched
InitLocator ==
    /\ IdleBootstrap
    /\ locFn \in {"check", "cmd"}
    /\ probeOk \in [{0} \cup PathProbes -> BOOLEAN]
    /\ pending = {0}
    /\ foundPath = 0
    /\ checkedPaths = 0
    /\ resolved = << >>
    /\ IdleLibrary

\* the path handed back without its quotes
FoundValue_Unquoted(p) == IF locFn = "check" THEN "true"
                          ELSE IF p = 0 THEN "uv" ELSE commonPaths[p]

\* the value passed to resolve() on a find / on exhaustion
FoundValue(p) == IF locFn = "check" THEN "true"
                 ELSE IF p = 0 THEN "uv" ELSE "\"" \o commonPaths[p] \o "\""
NotFoundValue == IF locFn = "check" THEN "false" ELSE "uv"

\* callback of exec('uv --version') (uvManager.js:11-44, 97-127)
PathProbeDone ==
    /\ 0 \in pending
    /\ IF probeOk[0]
       THEN /\ resolved' = Append(resolved, FoundValue(0))
            /\ pending' = {}
       ELSE /\ pending' = PathProbes          \* commonPaths.forEach(exec ...)
            /\ UNCHANGED resolved
    /\ UNCHANGED <<bootVars, libVars,
                   locFn, probeOk, foundPath, checkedPaths>>

\* the test of 'foundPath' left out of the exhaustion branch
AllChecked_LastOnly(n, found) == n = Len(commonPaths)

\* the count of completed probes ignored
AllChecked_NoCount(n, found) == found = 0

\* the condition under which a probe callback reports "not found"
AllChecked(n, found) == n = Len(commonPaths) /\ found = 0

\* callback of exec('"<path>" --version') for commonPaths[p]
ProbeDone(p) ==
    /\ p \in pending /\ p # 0
    /\ pending' = pending \ {p}
    /\ checkedPaths' = checkedPaths + 1
    /\ IF probeOk[p] /\ foundPath = 0
       THEN /\ foundPath' = p
            /\ resolved' = Append(resolved, FoundValue(p))
       ELSE IF AllChecked(checkedPaths + 1, foundPath)
       THEN /\ resolved' = Append(resolved, NotFoundValue)
            /\ UNCHANGED foundPath
       ELSE UNCHANGED <<foundPath, resolved>>
    /\ UNCHANGED <<bootVars, libVars, locFn, probeOk>>

NextLocator ==
    \/ PathProbeDone
    \/ \E p \in PathProbes : ProbeDone(p)

SpecLocator == InitLocator /\ [][NextLocator]_vars

----------------------------------------------------------------------------
\* Tool installer: installUv(osInfo) (uvManager.js:54-88)

InitInstaller ==
    /\ IdleBootstrap
    /\ IdleApp
    /\ IdleLocator
    /\ IdleTerminal
    /\ IdlePathEnv
    /\ IdleLabel
    /\ IdleSearch
    /\ osInfo \in {getOperatingSystem(p) : p \in Platforms}
    /\ insPc = [c \in InstallCalls |-> "idle"]
    /\ installCommand = [c \in InstallCalls |-> "none"]
    /\ execs = [c \in InstallCalls |-> 0]
    /\ exitError = [c \in InstallCalls |-> "none"]
    /\ insResolved = [c \in InstallCalls |-> << >>]
    /\ insNotes = [c \in InstallCalls |-> << >>]

\* the final else left out: every other system is given the curl installer
installCommandFor_CurlDefault(o) ==
    IF o.isWindows
    THEN "powershell -ExecutionPolicy ByPass -c \"irm https://astral.sh/uv/install.ps1 | iex\""
    ELSE "curl -LsSf https://astral.sh/uv/install.sh | sh"

\* the if / else-if chain choosing 'installCommand' ("none": the final else)
installCommandFor(o) ==
    IF o.isWindows
    THEN "powershell -ExecutionPolicy ByPass -c \"irm https://astral.sh/uv/install.ps1 | iex\""
    ELSE IF o.isMacOS \/ o.isLinux
    THEN "curl -LsSf https://astral.sh/uv/install.sh | sh"
    ELSE "none"

\* installUv(osInfo) from its call to exec(installCommand, ...) or to its return
installUv(c) ==
    /\ insPc[c] = "idle"
    /\ installCommand' = [installCommand EXCEPT ![c] = installCommandFor(osInfo)]
    /\ IF installCommandFor(osInfo) = "none"
       THEN /\ insResolved' = [insResolved EXCEPT ![c] = Append(@, FALSE)]
            /\ insPc' = [insPc EXCEPT ![c] = "returned"]
            /\ UNCHANGED execs
       ELSE /\ execs' = [execs EXCEPT ![c] = @ + 1]
            /\ insPc' = [insPc EXCEPT ![c] = "exec"]
            /\ UNCHANGED insResolved
    /\ UNCHANGED <<bootVars, locVars, appVars, tmVars, pathVars, lblVars, qpVars, osInfo,
                   exitError, insNotes>>

\* callback of exec(installCommand, ...): the process exited, with an error or not
InstallExecDone(c, error) ==
    /\ insPc[c] = "exec"
    /\ exitError' = [exitError EXCEPT ![c] = IF error THEN "error" ELSE "clean"]
    /\ IF error
       THEN /\ insNotes' = [insNotes EXCEPT ![c] = Append(@, "installError")]
            /\ insResolved' = [insResolved EXCEPT ![c] = Append(@, FALSE)]
       ELSE /\ insResolved' = [insResolved EXCEPT ![c] = Append(@, TRUE)]
            /\ UNCHANGED insNotes
    /\ insPc' = [insPc EXCEPT ![c] = "returned"]
    /\ UNCHANGED <<bootVars, locVars, appVars, tmVars, pathVars, lblVars, qpVars, osInfo,
                   installCommand, execs>>

NextInstaller ==
    \/ \E c \in InstallCalls : installUv(c)
    \/ \E c \in InstallCalls, error \in BOOLEAN : InstallExecDone(c, error)

SpecInstaller == InitInstaller /\ [][NextInstaller]_vars

----------------------------------------------------------------------------
\* Terminal session manager: getOrCreateTerminal (terminalManager.js:8-32) against
\* a host whose every observation the code branches on is an input: the lookup may
\* throw, the terminal found may report an exit status, reading its state may give
\* a falsy value or throw, and createTerminal may throw.

InitTerminal ==
    /\ IdleBootstrap
    /\ IdleApp
    /\ IdleLocator
    /\ IdleInstaller
    /\ IdleTerminal
    /\ IdlePathEnv
    /\ IdleLabel
    /\ IdleSearch

\* 'vscode.window.terminals.find(t => t.name === 'pyCage')' (0: undefined)
existingTerminal ==
    IF \E k \in 1..Len(hostTerms) : hostTerms[k].listed /\ hostTerms[k].name = "pyCage"
    THEN CHOOSE k \in 1..Len(hostTerms) :
            /\ hostTerms[k].listed /\ hostTerms[k].name = "pyCage"
            /\ \A j \in 1..(k-1) : ~(hostTerms[j].listed /\ hostTerms[j].name = "pyCage")
    ELSE 0

\* 'existingTerminal.exitStatus === undefined'
NoExitStatus(k) == hostTerms[k].status # "exited"

\* the reuse left out: every call creates a terminal
Reusable_Never(k, probe) == FALSE

\* the conditions under which the terminal found is returned (lines 12-18)
Reusable(k, probe) == k # 0 /\ NoExitStatus(k) /\ probe = "truthy"

\* the terminal createTerminal(name) adds to the host
NewTerminal(name) == [name |-> name, status |-> "live", listed |-> TRUE]

\* one getOrCreateTerminal() call. lookupThrows: reading window.terminals throws;
\* probe: what reading existingTerminal.state gives; createThrows, fallbackThrows:
\* createTerminal('pyCage') / createTerminal(`pyCage-${Date.now()}`) throws
GetOrCreateTerminalCall(lookupThrows, probe, createThrows, fallbackThrows) ==
    /\ tmCalls < MaxTerminalCalls
    /\ tmCalls' = tmCalls + 1
    /\ LET k == existingTerminal
           probed == ~lookupThrows /\ k # 0 /\ NoExitStatus(k)
           seen == [first |-> IF lookupThrows THEN 0 ELSE k,
                    probe |-> IF probed THEN probe ELSE "none"]
           new == Len(hostTerms) + 1
       IN  IF ~lookupThrows /\ Reusable(k, probe)
           THEN /\ tmLast' = seen @@ [failed |-> FALSE, created |-> 0,
                                       returned |-> k, threw |-> FALSE]
                /\ UNCHANGED hostTerms
           ELSE IF ~lookupThrows /\ ~createThrows
           THEN /\ hostTerms' = Append(hostTerms, NewTerminal("pyCage"))
                /\ tmLast' = seen @@ [failed |-> FALSE, created |-> new,
                                       returned |-> new, threw |-> FALSE]
           ELSE IF ~fallbackThrows
           THEN /\ hostTerms' = Append(hostTerms,
                                       NewTerminal("pyCage-" \o ToString(now)))
                /\ tmLast' = seen @@ [failed |-> TRUE, created |-> new,
                                       returned |-> new, threw |-> FALSE]
           ELSE /\ tmLast' = seen @@ [failed |-> TRUE, created |-> 0,
                                       returned |-> 0, threw |-> TRUE]
                /\ UNCHANGED hostTerms
    /\ UNCHANGED <<bootVars, locVars, appVars, insVars, pathVars, lblVars, qpVars, now>>

\* the caller disposes the terminal it was handed (packageManager.js:33-39)
DisposeReturned ==
    /\ tmLast.returned # 0
    /\ hostTerms[tmLast.returned].status = "live"
    /\ hostTerms' = [hostTerms EXCEPT ![tmLast.returned].status = "disposed"]
    /\ UNCHANGED <<bootVars, locVars, appVars, insVars, pathVars, lblVars, qpVars, now,
                   tmCalls, tmLast>>

\* the process of terminal k exits: it reports an exit status from now on
TermExit(k) ==
    /\ hostTerms[k].status # "exited"
    /\ hostTerms' = [hostTerms EXCEPT ![k].status = "exited"]
    /\ UNCHANGED <<bootVars, locVars, appVars, insVars, pathVars, lblVars, qpVars, now,
                   tmCalls, tmLast>>

\* the host closes terminal k and drops it from window.terminals
TermRemoved(k) ==
    /\ hostTerms[k].listed
    /\ hostTerms' = [hostTerms EXCEPT ![k].status = "exited", ![k].listed = FALSE]
    /\ UNCHANGED <<bootVars, locVars, appVars, insVars, pathVars, lblVars, qpVars, now,
                   tmCalls, tmLast>>

\* a millisecond passes
Tick ==
    /\ now < MaxNow
    /\ now' = now + 1
    /\ UNCHANGED <<bootVars, locVars, appVars, insVars, pathVars, lblVars, qpVars,
                   hostTerms, tmCalls, tmLast>>

NextTerminal ==
    \/ \E lookupThrows \in BOOLEAN, probe \in {"truthy", "falsy", "throws"},
          createThrows \in BOOLEAN, fallbackThrows \in BOOLEAN :
            GetOrCreateTerminalCall(lookupThrows, probe, createThrows, fallbackThrows)
    \/ DisposeReturned
    \/ \E k \in 1..Len(hostTerms) : TermExit(k)
    \/ \E k \in 1..Len(hostTerms) : TermRemoved(k)
    \/ Tick

SpecTerminal == InitTerminal /\ [][NextTerminal]_vars

----------------------------------------------------------------------------
\* setupTerminalEnvironment(terminal, uvPath) (terminalManager.js:39-63), called
\* with the value 'await getUvCommand()' gave. A string is a sequence of characters;
\* a run of characters that holds no separator and no quote is written as one
\* element, so "/usr/local" is << "/", "usr", "/", "local" >>.

\* values of os.homedir(): POSIX homes and a Windows one
HomeDirs == { << "/", "home", "/", "u" >>,
              << "/", "root" >>,
              << "/", "Users", "/", "u" >>,
              << "C:", "\\", "Users", "\\", "u" >> }

IsSep(t) == t \in {"/", "\\"}
IsQuote(t) == t \in {"'", "\""}

\* the four entries of 'commonPaths' (uvManager.js:104-109) for a home directory
commonPathChars(home) ==
    << home \o << "/", ".cargo", "/", "bin", "/", "uv" >>,
       home \o << "/", ".local", "/", "bin", "/", "uv" >>,
       << "/", "usr", "/", "local", "/", "bin", "/", "uv" >>,
       << "/", "opt", "/", "homebrew", "/", "bin", "/", "uv" >> >>

\* the characters of a value getUvCommand resolved to ("~" in commonPaths stands
\* for the home directory)
Chars(v, home) ==
    IF v = "uv" THEN << "uv" >>
    ELSE LET p == CHOOSE q \in PathProbes : v = "\"" \o commonPaths[q] \o "\""
         IN  << "\"" >> \o commonPathChars(home)[p] \o << "\"" >>

\* the initial value of 'pathAdditions' (lines 42-47)
pathAdditions(home) ==
    << home \o << "/", ".cargo", "/", "bin" >>,
       home \o << "/", ".local", "/", "bin" >>,
       << "/", "usr", "/", "local", "/", "bin" >>,
       << "/", "opt", "/", "homebrew", "/", "bin" >> >>

\* str.replace(/['"]/g, '')
StripQuotes(str) == SelectSeq(str, LAMBDA t : ~IsQuote(t))

\* str.split(/[/\\]/): the pieces between separators, empty pieces included
RECURSIVE Split(_)
Split(str) ==
    IF \A i \in 1..Len(str) : ~IsSep(str[i])
    THEN << str >>
    ELSE LET i == CHOOSE j \in 1..Len(str) :
                     IsSep(str[j]) /\ \A h \in 1..(j-1) : ~IsSep(str[h])
         IN  << SubSeq(str, 1, i - 1) >> \o Split(SubSeq(str, i + 1, Len(str)))

\* parts.slice(0, -1)
DropLast(parts) == SubSeq(parts, 1, Len(parts) - 1)

\* parts.join('/')
RECURSIVE Join(_)
Join(parts) ==
    IF Len(parts) = 0 THEN << >>
    ELSE IF Len(parts) = 1 THEN parts[1]
    ELSE parts[1] \o << "/" >> \o Join(Tail(parts))

\* 'uvDir' (line 51)
uvDir(uvPath) == Join(DropLast(Split(StripQuotes(uvPath))))

\* list.includes(dir)
Includes(list, dir) == \E i \in 1..Len(list) : list[i] = dir

\* 'pathAdditions' when it is joined (lines 50-57)
PathList(uvPath, home) ==
    IF (\E i \in 1..Len(uvPath) : IsSep(uvPath[i]))
       /\ uvDir(uvPath) # << >>
       /\ ~Includes(pathAdditions(home), uvDir(uvPath))
    THEN << uvDir(uvPath) >> \o pathAdditions(home)
    ELSE pathAdditions(home)

InitPathEnv ==
    /\ IdleBootstrap
    /\ IdleApp
    /\ IdleInstaller
    /\ IdleTerminal
    /\ IdleLabel
    /\ IdleSearch
    /\ locFn = "cmd"
    /\ probeOk \in [{0} \cup PathProbes -> BOOLEAN]
    /\ pending = {0}
    /\ foundPath = 0
    /\ checkedPaths = 0
    /\ resolved = << >>
    /\ homedir \in HomeDirs
    /\ envTermOk \in BOOLEAN
    /\ envPc = "waiting"
    /\ envUvPath = << >>
    /\ pathSent = << >>

\* 'const uvCommand = await getUvCommand(); setupTerminalEnvironment(terminal,
\* uvCommand)' (venvManager.js:66-67): the call, once getUvCommand has resolved
setupTerminalEnvironment ==
    /\ envPc = "waiting"
    /\ resolved # << >>
    /\ envPc' = "done"
    /\ envUvPath' = Chars(resolved[1], homedir)
    /\ pathSent' = IF envTermOk
                   THEN Append(pathSent, PathList(Chars(resolved[1], homedir), homedir))
                   ELSE pathSent           \* sendText throws; the catch logs it
    /\ UNCHANGED <<bootVars, locVars, appVars, insVars, tmVars, lblVars, qpVars, homedir,
                   envTermOk>>

NextPathEnv ==
    \/ PathProbeDone
    \/ \E p \in PathProbes : ProbeDone(p)
    \/ setupTerminalEnvironment

SpecPathEnv == InitPathEnv /\ [][NextPathEnv]_vars

----------------------------------------------------------------------------
\* The label of a quick-pick item: built in updateItems (packageSearch.js, the
\* template of commandBase.js:239), read back by getProjectNameFromQuickPick
\* (commandBase.js:265-271). Strings are sequences of single characters.

\* the ranks and the project names a label is built from
MaxRank == 101
MaxLabelNameLen == 3
LabelAlphabet == {"a", " ", "1", ".", "\n"}
LabelNames == UNION {[1..n -> LabelAlphabet] : n \in 1..MaxLabelNameLen}

InitLabel ==
    /\ IdleBootstrap
    /\ IdleApp
    /\ IdleLocator
    /\ IdleInstaller
    /\ IdleTerminal
    /\ IdlePathEnv
    /\ IdleSearch
    /\ lblRank \in 1..MaxRank
    /\ lblName \in LabelNames
    /\ lblItem = << >>
    /\ lblOut = << >>
    /\ lblPc = "input"

DigitChars == << "0", "1", "2", "3", "4", "5", "6", "7", "8", "9" >>

\* String(n) for a natural number
RECURSIVE Digits(_)
Digits(n) == IF n < 10 THEN << DigitChars[n + 1] >>
             ELSE Digits(n \div 10) \o << DigitChars[(n % 10) + 1] >>

\* str.padStart(2, '0')
padStart2(str) == IF Len(str) < 2 THEN << "0" >> \o str ELSE str

\* `${String(index + 1).padStart(2, '0')}. ${pkg.project}` with rank = index + 1
Label(rank, project) == padStart2(Digits(rank)) \o << ".", " " >> \o project

\* the character classes of the pattern: \d, \s, and what '.' does not match
IsDigit(c) == \E d \in 1..Len(DigitChars) : DigitChars[d] = c
IsSpace(c) == c \in {" ", "\t", "\n", "\r"}
IsLineEnd(c) == c \in {"\n", "\r"}

\* length of the longest prefix of str made of digits / of whitespace
DigitRun(str) ==
    CHOOSE n \in 0..Len(str) :
        /\ \A i \in 1..n : IsDigit(str[i])
        /\ n < Len(str) => ~IsDigit(str[n + 1])
SpaceRun(str) ==
    CHOOSE n \in 0..Len(str) :
        /\ \A i \in 1..n : IsSpace(str[i])
        /\ n < Len(str) => ~IsSpace(str[n + 1])

\* label.match(/^\d+\.\s*(.+)$/): << >> when there is no match, else << group 1 >>.
\* \d+ and \s* are greedy; \s* gives characters back until (.+) can take at least
\* one character and everything up to the end, none of them a line end.
RankMatch(label) ==
    LET d == DigitRun(label)
    IN  IF d = 0 \/ d = Len(label) \/ label[d + 1] # "."
        THEN << >>
        ELSE LET rest == SubSeq(label, d + 2, Len(label))
                 w == SpaceRun(rest)
                 Ok(m) == /\ m < Len(rest)
                          /\ \A i \in (m + 1)..Len(rest) : ~IsLineEnd(rest[i])
             IN  IF \E m \in 0..w : Ok(m)
                 THEN LET m == CHOOSE k \in 0..w :
                                  Ok(k) /\ \A h \in (k + 1)..w : ~Ok(h)
                      IN  << SubSeq(rest, m + 1, Len(rest)) >>
                 ELSE << >>

\* getProjectNameFromQuickPick(item). item: << >> for undefined, else << the item >>;
\* the value: << >> for null, else << the string returned >>
getProjectNameFromQuickPick(item) ==
    IF item = << >> THEN << >>
    ELSE IF item[1].label = << >> THEN << >>
    ELSE IF RankMatch(item[1].label) # << >> THEN RankMatch(item[1].label)
    ELSE << item[1].label >>

\* the labelling step of updateItems for one record
FormatLabel ==
    /\ lblPc = "input"
    /\ lblItem' = << [label |-> Label(lblRank, lblName)] >>
    /\ lblPc' = "labelled"
    /\ UNCHANGED <<bootVars, locVars, appVars, insVars, tmVars, pathVars, qpVars,
                   lblRank, lblName, lblOut>>

\* getProjectNameFromQuickPick on the item just built
StripLabel ==
    /\ lblPc = "labelled"
    /\ lblOut' = getProjectNameFromQuickPick(lblItem)
    /\ lblPc' = "stripped"
    /\ UNCHANGED <<bootVars, locVars, appVars, insVars, tmVars, pathVars, qpVars,
                   lblRank, lblName, lblItem>>

\* getProjectNameFromQuickPick on an item whose label is the bare name
StripBare ==
    /\ lblPc = "input"
    /\ lblItem' = << [label |-> lblName] >>
    /\ lblOut' = getProjectNameFromQuickPick(<< [label |-> lblName] >>)
    /\ lblPc' = "rawStripped"
    /\ UNCHANGED <<bootVars, locVars, appVars, insVars, tmVars, pathVars, qpVars,
                   lblRank, lblName>>

NextLabel ==
    \/ FormatLabel
    \/ StripLabel
    \/ StripBare

SpecLabel == InitLabel /\ [][NextLabel]_vars

----------------------------------------------------------------------------
\* Ranked package search: calculateKeywordSimilarity, calculateWeightedScore and
\* showPopularQuickPick (packageSearch.js, stored in commandBase.js:141-257).
\* Scores are kept as fractions << numerator, denominator >> and compared exactly.

\* src/src/utils/commandBase.js:222   matches.slice(0, 20)
TopMatches == 20
\* src/src/utils/commandBase.js:238   matches.slice(0, 200)
DisplayCap == 200

\* the record lists: every list of up to MaxBase records over short names, and the
\* lists that repeat a two-record pattern MaxRepeat times
MaxNameLen == 2
MaxQueryLen == 1
MaxDownloads == 2
MaxBase == 2
MaxRepeat == 101
Alphabet == {"a", "A", "-"}
Names == UNION {[1..n -> Alphabet] : n \in 0..MaxNameLen}
Queries == UNION {[1..n -> Alphabet] : n \in 0..MaxQueryLen}
Records == [project : Names, download_count : 0..MaxDownloads]
Bases == UNION {[1..n -> Records] : n \in 0..MaxBase}
PatternBases == [1..2 -> [project : {<< "a" >>, << "b" >>}, download_count : 0..1]]
Repeat(base, r) == [k \in 1..(Len(base) * r) |-> base[((k - 1) % Len(base)) + 1]]

\* the query and the two names of the ranking scenario, and its list of records
num == << "n", "u", "m" >>
numpy == << "n", "u", "m", "p", "y" >>
num2words == << "n", "u", "m", "2", "w", "o", "r", "d", "s" >>
ScenarioList == << [project |-> numpy, download_count |-> 1000000],
                   [project |-> num2words, download_count |-> 500] >>

\* a list whose most downloaded record comes after more than 20 other matches
LateMaximumList ==
    Repeat(<< [project |-> << "a" >>, download_count |-> 1] >>, TopMatches + 1)
        \o << [project |-> << "a" >>, download_count |-> MaxDownloads] >>

\* commandBase.js squares the download score, commandHandlers.js takes its root
Scalings == {"square", "root"}

Min(a, b) == IF a < b THEN a ELSE b

\* str.toLowerCase()
toLowerCase(str) == [i \in 1..Len(str) |-> IF str[i] = "A" THEN "a"
                                           ELSE IF str[i] = "B" THEN "b" ELSE str[i]]

\* no name starts with anything
startsWith_Never(name, search) == FALSE

\* name.startsWith(search), name.includes(search)
startsWith(name, search) ==
    Len(search) <= Len(name) /\ SubSeq(name, 1, Len(search)) = search
includes(name, search) ==
    \E i \in 0..(Len(name) - Len(search)) : SubSeq(name, i + 1, i + Len(search)) = search

\* name.split(/[-_]/)
RECURSIVE SplitWords(_)
SplitWords(str) ==
    IF \A i \in 1..Len(str) : str[i] \notin {"-", "_"}
    THEN << str >>
    ELSE LET i == CHOOSE j \in 1..Len(str) :
                     str[j] \in {"-", "_"} /\ \A h \in 1..(j-1) : str[h] \notin {"-", "_"}
         IN  << SubSeq(str, 1, i - 1) >> \o SplitWords(SubSeq(str, i + 1, Len(str)))

\* the loop of lines 167-172: characters of search found in name, left to right
RECURSIVE SubseqMatches(_, _)
SubseqMatches(name, search) ==
    IF name = << >> \/ search = << >> THEN 0
    ELSE IF Head(name) = Head(search)
    THEN 1 + SubseqMatches(Tail(name), Tail(search))
    ELSE SubseqMatches(Tail(name), search)

\* the same function with the 'contains' test made before the 'starts with' test
calculateKeywordSimilarity_ContainsFirst(searchTerm, packageName) ==
    LET search == toLowerCase(searchTerm)
        name == toLowerCase(packageName)
    IN  IF searchTerm = << >> \/ packageName = << >> THEN <<0, 1>>
        ELSE IF search = name THEN <<1, 1>>
        ELSE IF includes(name, search)
        THEN IF Includes(SplitWords(name), search) THEN <<4, 10>>
             ELSE <<2, 10>>
        ELSE IF startsWith(name, search) THEN <<6, 10>>
        ELSE IF SubseqMatches(name, search) = Len(search)
        THEN <<SubseqMatches(name, search), 10 * Len(name)>>
        ELSE <<0, 1>>

\* calculateKeywordSimilarity(searchTerm, packageName), as a fraction
calculateKeywordSimilarity(searchTerm, packageName) ==
    LET search == toLowerCase(searchTerm)
        name == toLowerCase(packageName)
    IN  IF searchTerm = << >> \/ packageName = << >> THEN <<0, 1>>
        ELSE IF search = name THEN <<1, 1>>                      \* 1.0
        ELSE IF startsWith(name, search) THEN <<6, 10>>          \* 0.6
        ELSE IF includes(name, search)
        THEN IF Includes(SplitWords(name), search) THEN <<4, 10>>  \* 0.4
             ELSE <<2, 10>>                                       \* 0.2
        ELSE IF SubseqMatches(name, search) = Len(search)
        THEN <<SubseqMatches(name, search), 10 * Len(name)>>     \* (matches/length)*0.1
        ELSE <<0, 1>>

\* exact fractions <<num, den>> with den > 0, kept in lowest terms
RECURSIVE GCD(_, _)
GCD(a, b) == IF b = 0 THEN a ELSE GCD(b, a % b)
Abs(a) == IF a < 0 THEN 0 - a ELSE a
Reduce(x) == LET g == GCD(Abs(x[1]), x[2]) IN <<x[1] \div g, x[2] \div g>>
FracAdd(x, y) == Reduce(<<x[1] * y[2] + y[1] * x[2], x[2] * y[2]>>)
FracSub(x, y) == Reduce(<<x[1] * y[2] - y[1] * x[2], x[2] * y[2]>>)
FracMul(x, y) == Reduce(<<x[1] * y[1], x[2] * y[2]>>)

\* 'maxDownloads > 0 ? (pkg.download_count || 0) / maxDownloads : 0'
downloadScoreOf(pkg, maxDownloads) ==
    IF maxDownloads > 0 THEN Reduce(<<pkg.download_count, maxDownloads>>) ELSE <<0, 1>>

\* a weighted score in which the least downloaded package gets the full download
\* share
calculateWeightedScore_LeastFirst(pkg, searchTerm, maxDownloads) ==
    LET downloadScore == FracSub(<<1, 1>>, downloadScoreOf(pkg, maxDownloads))
        similarityScore == Reduce(calculateKeywordSimilarity(searchTerm, pkg.project))
    IN  FracAdd(FracMul(<<8, 10>>, FracMul(downloadScore, downloadScore)),
                FracMul(<<2, 10>>, similarityScore))

\* calculateWeightedScore(pkg, searchTerm, maxDownloads) of commandBase.js, as a
\* fraction: downloadScore squared times 0.8 plus similarityScore times 0.2
calculateWeightedScore(pkg, searchTerm, maxDownloads) ==
    LET downloadScore == downloadScoreOf(pkg, maxDownloads)
        similarityScore == Reduce(calculateKeywordSimilarity(searchTerm, pkg.project))
        exponentialDownloadScore == FracMul(downloadScore, downloadScore)
    IN  FracAdd(FracMul(<<8, 10>>, exponentialDownloadScore),
                FracMul(<<2, 10>>, similarityScore))

\* calculateWeightedScore(pkg, searchTerm, maxDownloads) of commandHandlers.js: the
\* download score goes in under its square root, so the score is kept as the pair
\* of the download score and the similarity score
calculateRootScore(pkg, searchTerm, maxDownloads) ==
    [d |-> downloadScoreOf(pkg, maxDownloads),
     s |-> Reduce(calculateKeywordSimilarity(searchTerm, pkg.project))]

\* x > y for fractions with positive denominators, over their common denominator
FracGt(x, y) ==
    LET g == GCD(x[2], y[2]) IN x[1] * (y[2] \div g) > y[1] * (x[2] \div g)

\* a score of commandHandlers.js, 0.8 * Math.pow(d, 0.5) + 0.2 * s, kept as the pair
\* of d and s; a > b decided exactly: with x = a.d, y = b.d and diff = b.s - a.s it
\* is 4 * (root(x) - root(y)) > diff, settled by squaring twice
RootGt(a, b) ==
    LET x == a.d
        y == b.d
        diff == FracSub(b.s, a.s)
        L == FracSub(FracAdd(x, y), FracMul(FracMul(diff, diff), <<1, 16>>))
        L2 == FracMul(L, L)
        xy4 == FracMul(<<4, 1>>, FracMul(x, y))
    IN  IF diff[1] = 0 THEN FracGt(x, y)
        ELSE IF ~FracGt(x, y) /\ ~FracGt(y, x) THEN diff[1] < 0
        ELSE IF FracGt(x, y)
        THEN diff[1] < 0 \/ (L[1] > 0 /\ FracGt(L2, xy4))
        ELSE diff[1] < 0 /\ (L[1] < 0 \/ FracGt(xy4, L2))

\* seq.sort((a, b) => b.key - a.key) on records that carry such a pair as their key
SortDescRoot(seq) ==
    LET n == Len(seq)
        place == SubSeq([i \in 1..n |->
                     Cardinality({j \in 1..n :
                         \/ RootGt(seq[j].key, seq[i].key)
                         \/ j < i /\ ~RootGt(seq[i].key, seq[j].key)}) + 1], 1, n)
    IN  SubSeq([k \in 1..n |-> seq[CHOOSE i \in 1..n : place[i] = k]], 1, n)

\* a descending sort that puts records with equal keys in reverse order
SortDesc_TiesReversed(seq) ==
    LET n == Len(seq)
        place == SubSeq([i \in 1..n |->
                     Cardinality({j \in 1..n :
                         \/ FracGt(seq[j].key, seq[i].key)
                         \/ j > i /\ ~FracGt(seq[i].key, seq[j].key)}) + 1], 1, n)
    IN  SubSeq([k \in 1..n |-> seq[CHOOSE i \in 1..n : place[i] = k]], 1, n)

\* seq.sort((a, b) => b.key - a.key) on records that carry their key as a fraction:
\* descending, records with equal keys keep their order
SortDesc(seq) ==
    LET n == Len(seq)
        \* the place of seq[i]: behind the greater keys and the earlier equal ones
        place == SubSeq([i \in 1..n |->
                     Cardinality({j \in 1..n :
                         \/ FracGt(seq[j].key, seq[i].key)
                         \/ j < i /\ ~FracGt(seq[i].key, seq[j].key)}) + 1], 1, n)
    IN  SubSeq([k \in 1..n |-> seq[CHOOSE i \in 1..n : place[i] = k]], 1, n)

\* everything shown: no cap on the list
Displayed_Uncapped(matches) == matches

\* matches.slice(0, 200)
Displayed(matches) == SubSeq(matches, 1, Min(DisplayCap, Len(matches)))

\* the count of the last of the list taken for the maximum
MaxOf_Last(list) == IF list = << >> THEN 0 ELSE list[Len(list)].pkg.download_count

\* Math.max(...list) over download counts (the empty list never reaches a score)
MaxOf(list) == IF list = << >> THEN 0
               ELSE CHOOSE m \in {list[i].pkg.download_count : i \in 1..Len(list)} :
                      \A i \in 1..Len(list) : list[i].pkg.download_count <= m

\* 'maxMatchDownloads' of updateItems: the matches sorted by downloads, the first 20
\* of them, 'Math.max(...topMatches.map(pkg => pkg.download_count || 0))'
maxMatchDownloadsOf(matches) ==
    LET byDownloads == SortDesc(SubSeq([i \in 1..Len(matches) |->
                           [pkg |-> matches[i], key |-> <<matches[i].download_count, 1>>]],
                           1, Len(matches)))
        topMatches == SubSeq(byDownloads, 1, Min(TopMatches, Len(byDownloads)))
    IN  MaxOf(topMatches)

\* the '_weightedScore' properties after updateItems(value): for a non-empty filter
\* 'matches.forEach(pkg => { pkg._weightedScore = ... })' writes the score on every
\* matching record, and the records of 'matches' are the objects of 'names'; the
\* score is kept as the numbers that make it up
scoresAfter(value) ==
    LET filter == toLowerCase(value)
        matches == SelectSeq(names, LAMBDA pkg :
                       pkg.project # << >> /\ includes(toLowerCase(pkg.project), filter))
        \* Math.max over the 20 most downloaded matches
        maxMatchDownloads == maxMatchDownloadsOf(matches)
        written(pkg) ==
            IF scaling = "square"
            THEN calculateWeightedScore(pkg, filter, maxMatchDownloads)
            ELSE LET key == calculateRootScore(pkg, filter, maxMatchDownloads)
                 IN  <<key.d[1], key.d[2], key.s[1], key.s[2]>>
    IN  IF filter = << >> THEN weightedScores
        ELSE SubSeq([i \in 1..Len(names) |->
                       IF /\ names[i].project # << >>
                          /\ includes(toLowerCase(names[i].project), filter)
                       THEN << written(names[i]) >>
                       ELSE weightedScores[i]], 1, Len(names))

\* the list updateItems(value) assigns to qp.items; the description of an item is
\* kept as the download count it prints (0: no description)
updateItems(value) ==
    LET filter == toLowerCase(value)
        matches == SelectSeq(names, LAMBDA pkg :
                       pkg.project # << >> /\ includes(toLowerCase(pkg.project), filter))
        byDownloads == SortDesc(SubSeq([i \in 1..Len(matches) |->
                           [pkg |-> matches[i], key |-> <<matches[i].download_count, 1>>]],
                           1, Len(matches)))
        topMatches == SubSeq(byDownloads, 1, Min(TopMatches, Len(byDownloads)))
        maxMatchDownloads == MaxOf(topMatches)
        \* matches.forEach(pkg => pkg._weightedScore = ...), then the second sort
        scored == SubSeq([i \in 1..Len(byDownloads) |->
                     [pkg |-> byDownloads[i].pkg,
                      key |-> calculateWeightedScore(byDownloads[i].pkg, filter,
                                                     maxMatchDownloads)]],
                         1, Len(byDownloads))
        scoredRoot == SubSeq([i \in 1..Len(byDownloads) |->
                         [pkg |-> byDownloads[i].pkg,
                          key |-> calculateRootScore(byDownloads[i].pkg, filter,
                                                     maxMatchDownloads)]],
                             1, Len(byDownloads))
        sorted == IF filter = << >> THEN byDownloads
                  ELSE IF scaling = "square" THEN SortDesc(scored)
                  ELSE SortDescRoot(scoredRoot)
        shown == Displayed(sorted)
    IN  [index \in 1..Len(shown) |->
            [label |-> Label(index, shown[index].pkg.project),
             description |-> shown[index].pkg.download_count]]

InitSearch ==
    /\ IdleBootstrap
    /\ IdleApp
    /\ IdleLocator
    /\ IdleInstaller
    /\ IdleTerminal
    /\ IdlePathEnv
    /\ IdleLabel
    /\ names \in Bases \cup {Repeat(base, MaxRepeat) : base \in PatternBases}
                \cup {ScenarioList, LateMaximumList}
    /\ scaling \in Scalings
    /\ weightedScores = [i \in 1..Len(names) |-> << >>]
    /\ qpValue = << >>
    /\ qpItems = << >>
    /\ qpPc = "open"
    /\ qpResolved = << >>
    /\ resolveCalls = 0
    /\ selectedLibrary = << >>

\* qp.onDidChangeValue(updateItems): the user edits the text
ChangeValue(value) ==
    /\ qpPc = "open"
    /\ value # qpValue
    /\ qpValue' = value
    /\ qpItems' = updateItems(value)
    /\ weightedScores' = scoresAfter(value)
    /\ UNCHANGED <<bootVars, locVars, appVars, insVars, tmVars, pathVars, lblVars, names,
                   scaling, qpPc, qpResolved, resolveCalls, selectedLibrary>>

\* qp.onDidAccept with item k selected (0: nothing to select): 'qp.hide();
\* resolve(sel)', followed by the command's 'if (!pick) return; selectedLibrary =
\* getProjectNameFromQuickPick(pick)'
Accept(k) ==
    /\ qpPc = "open"
    /\ IF qpItems = << >> THEN k = 0 ELSE k \in 1..Len(qpItems)
    /\ qpPc' = "accepted"
    /\ qpResolved' = IF k = 0 THEN << >> ELSE << qpItems[k] >>
    /\ resolveCalls' = resolveCalls + 1
    /\ selectedLibrary' = IF k = 0 THEN << >>
                          ELSE getProjectNameFromQuickPick(<< qpItems[k] >>)
    /\ UNCHANGED <<bootVars, locVars, appVars, insVars, tmVars, pathVars, lblVars, names,
                   scaling, weightedScores, qpValue, qpItems>>

\* a dismissal that leaves the promise unresolved
Hide_Unresolved ==
    /\ qpPc = "open"
    /\ qpPc' = "hidden"
    /\ UNCHANGED <<bootVars, locVars, appVars, insVars, tmVars, pathVars, lblVars, names,
                   scaling, weightedScores, qpValue, qpItems, qpResolved, resolveCalls,
                   selectedLibrary>>

\* qp.onDidHide: the user dismisses the quick pick, 'resolve(undefined)'
Hide ==
    /\ qpPc = "open"
    /\ qpPc' = "hidden"
    /\ resolveCalls' = resolveCalls + 1
    /\ UNCHANGED <<bootVars, locVars, appVars, insVars, tmVars, pathVars, lblVars, names,
                   scaling, weightedScores, qpValue, qpItems, qpResolved, selectedLibrary>>

\* qp.onDidHide after the 'qp.hide()' of onDidAccept: 'resolve(undefined)' on a
\* promise that is already resolved changes nothing
HideAfterAccept ==
    /\ qpPc = "accepted"
    /\ resolveCalls = 1
    /\ resolveCalls' = resolveCalls + 1
    /\ UNCHANGED <<bootVars, locVars, appVars, insVars, tmVars, pathVars, lblVars, names,
                   scaling, weightedScores, qpValue, qpItems, qpPc, qpResolved,
                   selectedLibrary>>

NextSearch ==
    \/ \E value \in Queries \cup {num} : ChangeValue(value)
    \/ \E k \in 0..DisplayCap : Accept(k)
    \/ Hide
    \/ HideAfterAccept

SpecSearch == InitSearch /\ [][NextSearch]_vars

----------------------------------------------------------------------------
\* One call of calculateKeywordSimilarity on any short search term and package name

MaxSimTermLen == 2
MaxSimNameLen == 3
SimAlphabet == {"a", "A", "b", "-", "_"}
SimTerms == UNION {[1..n -> SimAlphabet] : n \in 0..MaxSimTermLen}
SimNames == UNION {[1..n -> SimAlphabet] : n \in 0..MaxSimNameLen}

InitSimilarity ==
    /\ IdleBootstrap
    /\ IdleLocator
    /\ IdleInstaller
    /\ IdleTerminal
    /\ IdlePathEnv
    /\ IdleLabel
    /\ IdleSearch
    /\ IdleCommands
    /\ simTerm \in SimTerms \cup {num}
    /\ simName \in SimNames \cup {numpy, num2words}
    /\ simScore = <<0, 1>>
    /\ simPc = "call"

\* the call returns
SimilarityReturn ==
    /\ simPc = "call"
    /\ simScore' = calculateKeywordSimilarity(simTerm, simName)
    /\ simPc' = "returned"
    /\ UNCHANGED <<bootVars, locVars, insVars, tmVars, pathVars, lblVars, qpVars, cmdVars,
                   simTerm, simName>>

NextSimilarity == SimilarityReturn

SpecSimilarity == InitSimilarity /\ [][NextSimilarity]_vars

----------------------------------------------------------------------------
\* activate and the command handlers: py-cage.addPackageLocal (install to venv),
\* py-cage.addPackageGlobal (install globally), py-cage.uvAddPackage (uv add),
\* py-cage.makeRequirements, py-cage.debugInterpreter

MaxInvocations == 2
Commands == {"addPackageLocal", "addPackageGlobal", "uvAddPackage", "makeRequirements",
             "debugInterpreter"}
\* what the GET of activate gives: it fails, or 'res.data.rows' is empty or not
FetchOutcomes == {"failed", "empty", "rows"}
FetchedRows == << [project |-> << "a" >>, download_count |-> 1] >>
\* the lines one setupUvAsync run sends with a workspace folder open
BootstrapOutputs == {<< >>, << activationCommand(osInfo) >>, << "export PATH", "uv venv" >>,
                     << "export PATH", "uv venv", activationCommand(osInfo) >>}
NoCommand == [line |-> "", pkg |-> << >>]
Line(text, package) == [line |-> text, pkg |-> package]

\* the state of the parts below the commands
underVars == <<bootVars, locVars, insVars, tmVars, pathVars, lblVars, simVars>>

InitCommands ==
    /\ IdleBootstrap
    /\ IdleLocator
    /\ IdleInstaller
    /\ IdleTerminal
    /\ IdlePathEnv
    /\ IdleLabel
    /\ IdleSearch
    /\ IdleSimilarity
    /\ workspaceFolder \in BOOLEAN
    /\ extPc = "inactive"
    /\ fetched = "none"
    /\ extNotes = << >>
    /\ startupBoot = "none"
    /\ bootLines = << >>
    /\ cmd = "none"
    /\ cmdPc = "idle"
    /\ cmdSent = << >>
    /\ cmdNotes = << >>
    /\ prompts = 0
    /\ invocations = 0
    /\ command = NoCommand
    /\ answer = "none"

\* activate(context): the GET settles, the commands are registered and setupUvAsync
\* is started without being awaited
Activate(fetch) ==
    /\ extPc = "inactive"
    /\ extPc' = "active"
    /\ fetched' = fetch
    /\ names' = IF fetch = "rows" THEN FetchedRows ELSE << >>
    /\ weightedScores' = [i \in 1..Len(names') |-> << >>]
    /\ extNotes' = IF fetch = "failed" THEN Append(extNotes, "listWarning") ELSE extNotes
    /\ startupBoot' = "running"
    /\ UNCHANGED <<underVars, scaling, qpValue, qpItems, qpPc, qpResolved, resolveCalls,
                   selectedLibrary, workspaceFolder, bootLines, cmd, cmdPc, cmdSent,
                   cmdNotes, prompts, invocations, command, answer>>

\* the setupUvAsync run of activate settles: without a workspace folder
\* 'workspaceFolder.uri' throws inside its try, the catch block shows the error and
\* it returns false having sent nothing
StartupBootstrapDone(lines) ==
    /\ startupBoot = "running"
    /\ startupBoot' = "done"
    /\ IF workspaceFolder
       THEN /\ lines \in BootstrapOutputs
            /\ extNotes' = Append(extNotes, "setupDone")
       ELSE /\ lines = << >>
            /\ extNotes' = Append(extNotes, "setupError")
    /\ bootLines' = bootLines \o lines
    /\ UNCHANGED <<underVars, qpVars, workspaceFolder, extPc, fetched, cmd, cmdPc, cmdSent,
                   cmdNotes, prompts,
                   invocations, command, answer>>

\* showPopularQuickPick(names, placeHolder): a new quick pick is shown
ShowQuickPick ==
    /\ qpPc' = "open"
    /\ qpValue' = << >>
    /\ qpItems' = << >>
    /\ qpResolved' = << >>
    /\ resolveCalls' = 0
    /\ selectedLibrary' = << >>
    /\ UNCHANGED <<names, scaling, weightedScores>>

\* CommandBase.executeUvCommand up to 'await getUvCommand()': getOrCreateTerminal
\* throws or not; the catch block shows the error and throws it again
ExecuteUvCommand(arg, terminalThrows, shown) ==
    /\ command' = arg
    /\ IF terminalThrows
       THEN /\ cmdNotes' = cmdNotes \o shown \o << "executeFailed" >>
            /\ cmdPc' = "threw"
       ELSE /\ cmdNotes' = cmdNotes \o shown
            /\ cmdPc' = "getUvCommand"

\* a pip path that sends its line through uv
PipInstall_ThroughUv(terminalThrows, sendThrows) ==
    /\ cmdNotes' = Append(cmdNotes, "installing")
    /\ IF terminalThrows \/ sendThrows
       THEN /\ cmdPc' = "threw"
            /\ UNCHANGED cmdSent
       ELSE /\ cmdPc' = "returned"
            /\ cmdSent' = Append(cmdSent, Line("uv pip install", selectedLibrary))

\* 'getOrCreateTerminal(); sendText(`pip install ...`); show()' of the two pip
\* paths, outside any try
PipInstall(terminalThrows, sendThrows) ==
    /\ cmdNotes' = Append(cmdNotes, "installing")
    /\ IF terminalThrows \/ sendThrows
       THEN /\ cmdPc' = "threw"
            /\ UNCHANGED cmdSent
       ELSE /\ cmdPc' = "returned"
            /\ cmdSent' = Append(cmdSent, Line("pip install", selectedLibrary))

\* CommandBase.checkWorkspaceFolder finds a folder
checkWorkspaceFolder == workspaceFolder

\* a check of the package list that lets every list pass
checkPackageListAvailable_Always == TRUE

\* CommandBase.checkPackageListAvailable(names): '!names || names.length === 0'
\* shows the error and gives false
checkPackageListAvailable == names # << >>

\* a registered command is invoked: the handler runs up to its first await
Invoke(c) ==
    /\ extPc = "active"
    /\ cmdPc \in {"idle", "returned", "threw"}
    /\ invocations < MaxInvocations
    /\ invocations' = invocations + 1
    /\ cmd' = c
    /\ cmdSent' = << >>
    /\ command' = NoCommand
    /\ answer' = "none"
    /\ CASE c \in {"uvAddPackage", "makeRequirements", "debugInterpreter"}
              /\ ~checkWorkspaceFolder ->
                \* checkWorkspaceFolder shows its error, 'if (!workspaceFolder) return'
                /\ cmdNotes' = << "noWorkspace" >>
                /\ cmdPc' = "returned"
                /\ prompts' = 0
                /\ UNCHANGED qpVars
         [] c \in {"addPackageLocal", "addPackageGlobal", "uvAddPackage"}
              /\ (c = "uvAddPackage" => checkWorkspaceFolder)
              /\ ~checkPackageListAvailable ->
                \* checkPackageListAvailable shows its error
                /\ cmdNotes' = << "listUnavailable" >>
                /\ cmdPc' = "returned"
                /\ prompts' = 0
                /\ UNCHANGED qpVars
         [] c = "debugInterpreter" /\ checkWorkspaceFolder ->
                /\ cmdNotes' = << "debugInfo" >>
                /\ cmdPc' = "returned"
                /\ prompts' = 0
                /\ UNCHANGED qpVars
         [] c = "addPackageGlobal" /\ checkPackageListAvailable ->
                /\ cmdNotes' = << >>
                /\ cmdPc' = "pick"
                /\ prompts' = 1
                /\ ShowQuickPick
         [] OTHER ->
                \* 'await CommandBase.checkUvAvailable()'
                /\ cmdNotes' = << >>
                /\ cmdPc' = "checkUv"
                /\ prompts' = 0
                /\ UNCHANGED qpVars
    /\ UNCHANGED <<underVars, workspaceFolder, extPc, fetched, extNotes, startupBoot,
                   bootLines>>

\* checkUvInstalled settles inside CommandBase.checkUvAvailable; 'pyproject' is
\* whether pyproject.toml exists in the workspace folder
CheckUvAvailableDone(uvAvailable, pyproject, terminalThrows) ==
    /\ cmdPc = "checkUv"
    /\ CASE ~uvAvailable /\ cmd = "addPackageLocal" ->
                \* the warning with 'Install uv', 'Use pip instead', 'Cancel'
                /\ pyproject /\ ~terminalThrows
                /\ cmdNotes' = Append(cmdNotes, "uvMissing")
                /\ cmdPc' = "choice"
                /\ UNCHANGED <<qpVars, prompts, command>>
         [] ~uvAvailable /\ cmd # "addPackageLocal" ->
                /\ pyproject /\ ~terminalThrows
                /\ cmdNotes' = Append(cmdNotes, "uvMissing")
                /\ cmdPc' = "returned"
                /\ UNCHANGED <<qpVars, prompts, command>>
         [] uvAvailable /\ cmd = "addPackageLocal" ->
                /\ pyproject /\ ~terminalThrows
                /\ cmdPc' = "pick"
                /\ prompts' = prompts + 1
                /\ ShowQuickPick
                /\ UNCHANGED <<cmdNotes, command>>
         [] uvAvailable /\ cmd = "uvAddPackage" /\ pyproject ->
                /\ ~terminalThrows
                /\ cmdPc' = "pick"
                /\ prompts' = prompts + 1
                /\ ShowQuickPick
                /\ UNCHANGED <<cmdNotes, command>>
         [] uvAvailable /\ cmd = "uvAddPackage" /\ ~pyproject ->
                \* the warning with 'Initialize UV Project', 'Continue Anyway', 'Cancel'
                /\ ~terminalThrows
                /\ cmdPc' = "projectChoice"
                /\ UNCHANGED <<qpVars, prompts, cmdNotes, command>>
         [] OTHER ->
                \* py-cage.makeRequirements
                /\ uvAvailable /\ cmd = "makeRequirements" /\ pyproject
                /\ ExecuteUvCommand(Line("pip freeze > requirements.txt", << >>),
                                    terminalThrows, << "generating" >>)
                /\ UNCHANGED <<qpVars, prompts>>
    /\ UNCHANGED <<underVars, workspaceFolder, extPc, fetched, extNotes, startupBoot,
                   bootLines, cmd, cmdSent, invocations, answer>>

\* the user answers the 'uv is not installed' warning of py-cage.addPackageLocal, or
\* dismisses it
ToolChoice(choice) ==
    /\ cmdPc = "choice"
    /\ answer' = choice
    /\ CASE choice = "Install uv" ->
                \* 'await setupUvAsync(osInfo); return'
                /\ cmdNotes' = Append(cmdNotes, "installingUv")
                /\ cmdPc' = "bootstrap"
                /\ UNCHANGED <<qpVars, prompts>>
         [] choice = "Use pip instead" ->
                \* fallbackToPip(names)
                /\ cmdPc' = "pipPick"
                /\ prompts' = prompts + 1
                /\ ShowQuickPick
                /\ UNCHANGED cmdNotes
         [] OTHER ->
                /\ cmdPc' = "returned"
                /\ UNCHANGED <<qpVars, prompts, cmdNotes>>
    /\ UNCHANGED <<underVars, workspaceFolder, extPc, fetched, extNotes, startupBoot,
                   bootLines, cmd, cmdSent, invocations, command>>

\* the setupUvAsync run awaited by 'Install uv' settles, the handler returns
InstallBootstrapDone(lines) ==
    /\ cmdPc = "bootstrap"
    /\ cmdPc' = "returned"
    /\ IF workspaceFolder
       THEN /\ lines \in BootstrapOutputs
            /\ cmdNotes' = Append(cmdNotes, "setupDone")
       ELSE /\ lines = << >>
            /\ cmdNotes' = Append(cmdNotes, "setupError")
    /\ bootLines' = bootLines \o lines
    /\ UNCHANGED <<underVars, qpVars, workspaceFolder, extPc, fetched, extNotes,
                   startupBoot, cmd, cmdSent, prompts, invocations, command, answer>>

\* the user answers the 'No pyproject.toml found' warning of py-cage.uvAddPackage,
\* or dismisses it: only the first and the last answer end the invocation
ProjectChoice(choice) ==
    /\ cmdPc = "projectChoice"
    /\ CASE choice = "Initialize UV Project" ->
                /\ cmdNotes' = Append(cmdNotes, "runUvInit")
                /\ cmdPc' = "returned"
                /\ UNCHANGED <<qpVars, prompts>>
         [] choice = "Cancel" ->
                /\ cmdPc' = "returned"
                /\ UNCHANGED <<qpVars, prompts, cmdNotes>>
         [] OTHER ->
                /\ cmdPc' = "pick"
                /\ prompts' = prompts + 1
                /\ ShowQuickPick
                /\ UNCHANGED cmdNotes
    /\ UNCHANGED <<underVars, workspaceFolder, extPc, fetched, extNotes, startupBoot,
                   bootLines, cmd, cmdSent, invocations, command, answer>>

\* the promise of showPopularQuickPick has resolved and the handler goes on:
\* 'if (!pick) return', 'selectedLibrary = getProjectNameFromQuickPick(pick)'
PickDone(terminalThrows, sendThrows) ==
    /\ cmdPc \in {"pick", "pipPick"}
    /\ qpPc \in {"accepted", "hidden"}
    /\ CASE qpResolved = << >> \/ selectedLibrary = << >> ->
                /\ ~terminalThrows /\ ~sendThrows
                /\ cmdPc' = "returned"
                /\ UNCHANGED <<cmdNotes, cmdSent, command>>
         [] qpResolved # << >> /\ selectedLibrary # << >>
              /\ (cmdPc = "pipPick" \/ cmd = "addPackageGlobal") ->
                /\ PipInstall(terminalThrows, sendThrows)
                /\ UNCHANGED command
         [] qpResolved # << >> /\ selectedLibrary # << >>
              /\ cmdPc = "pick" /\ cmd = "addPackageLocal" ->
                /\ ~sendThrows
                /\ ExecuteUvCommand(Line("pip install", selectedLibrary), terminalThrows,
                                    << "installing" >>)
                /\ UNCHANGED cmdSent
         [] OTHER ->
                \* py-cage.uvAddPackage: 'await showDependencyTypeSelection()'
                /\ ~terminalThrows /\ ~sendThrows
                /\ cmdPc' = "dependencyType"
                /\ UNCHANGED <<cmdNotes, cmdSent, command>>
    /\ UNCHANGED <<underVars, qpVars, workspaceFolder, extPc, fetched, extNotes,
                   startupBoot, bootLines, cmd, prompts, invocations, answer>>

\* the dependency type is picked ('': production, '--dev': development) or the pick
\* is dismissed
DependencyTypeDone(dependencyType, terminalThrows) ==
    /\ cmdPc = "dependencyType"
    /\ IF dependencyType = "dismissed"
       THEN /\ ~terminalThrows
            /\ cmdPc' = "returned"
            /\ UNCHANGED <<cmdNotes, command>>
       ELSE ExecuteUvCommand(Line("add" \o dependencyType, selectedLibrary),
                             terminalThrows, << "adding" >>)
    /\ UNCHANGED <<underVars, qpVars, workspaceFolder, extPc, fetched, extNotes,
                   startupBoot, bootLines, cmd, cmdSent, prompts, invocations, answer>>

\* getUvCommand settles inside executeUvCommand: setupTerminalEnvironment sends the
\* export line inside its own try, then 'terminal.sendText(fullCommand)' and the
\* success message; when sendText throws the catch block shows the error and throws
\* it again
GetUvCommandReturned(exportThrows, sendThrows) ==
    /\ cmdPc = "getUvCommand"
    /\ LET export == IF exportThrows THEN << >> ELSE << Line("export PATH", << >>) >>
       IN  IF sendThrows
           THEN /\ cmdSent' = cmdSent \o export
                /\ cmdNotes' = Append(cmdNotes, "executeFailed")
                /\ cmdPc' = "threw"
           ELSE /\ cmdSent' = cmdSent \o export
                                \o << Line("uv " \o command.line, command.pkg) >>
                /\ cmdNotes' = IF cmd = "makeRequirements"
                               THEN Append(cmdNotes, "generated") ELSE cmdNotes
                /\ cmdPc' = "returned"
    /\ UNCHANGED <<underVars, qpVars, workspaceFolder, extPc, fetched, extNotes,
                   startupBoot, bootLines, cmd, prompts, invocations, command, answer>>

\* the quick pick events only come while a handler awaits the quick pick
NextCommands ==
    \/ \E fetch \in FetchOutcomes : Activate(fetch)
    \/ \E lines \in BootstrapOutputs : StartupBootstrapDone(lines)
    \/ \E c \in Commands : Invoke(c)
    \/ \E uvAvailable, pyproject, terminalThrows \in BOOLEAN :
          CheckUvAvailableDone(uvAvailable, pyproject, terminalThrows)
    \/ \E choice \in {"Install uv", "Use pip instead", "Cancel", "dismissed"} :
          ToolChoice(choice)
    \/ \E lines \in BootstrapOutputs : InstallBootstrapDone(lines)
    \/ \E choice \in {"Initialize UV Project", "Continue Anyway", "Cancel", "dismissed"} :
          ProjectChoice(choice)
    \/ \E value \in Queries : ChangeValue(value)
    \/ \E k \in 0..Len(FetchedRows) : Accept(k)
    \/ Hide
    \/ HideAfterAccept
    \/ \E terminalThrows, sendThrows \in BOOLEAN : PickDone(terminalThrows, sendThrows)
    \/ \E dependencyType \in {"", " --dev", "dismissed"}, terminalThrows \in BOOLEAN :
          DependencyTypeDone(dependencyType, terminalThrows)
    \/ \E exportThrows, sendThrows \in BOOLEAN : GetUvCommandReturned(exportThrows, sendThrows)

SpecCommands == InitCommands /\ [][NextCommands]_vars

----------------------------------------------------------------------------
\* Properties

Count(seq, x) == Cardinality({k \in 1..Len(seq) : seq[k] = x})
Has(seq, x) == \E k \in 1..Len(seq) : seq[k] = x
LastOf(seq) == IF Len(seq) = 0 THEN "none" ELSE seq[Len(seq)]

\* invocation i is inside the try of createVenvIfNeeded, suspended at an await
InAttempt(i) == pc[i] \in {"getUvCommand", "poll", "fallback"}

\* createVenvIfNeeded of invocation i returned after running its try block
AttemptReturned(i) == exitPath[i] \in {"noWorkspace", "recheck", "ready", "timeout",
                                       "exception"}

VenvLines == Count(sent["startup"], "uv venv") + Count(sent["command"], "uv venv")

\* C1 (as claimed): two overlapping bootstraps that both saw no .venv have sent
\* exactly one '<uv> venv' line between them when both are finished. Stated for the
\* runs without outside help: no invocation found .venv at its re-check, none threw,
\* and the environment never became ready.
C1_ExactlyOneDispatch ==
    ( /\ overlap
      /\ \A i \in Callers : /\ pc[i] = "done"
                            /\ ~venvExists[i]
                            /\ exitPath[i] \in {"inProgress", "timeout"} )
    => VenvLines = 1

\* C1 (amended): '<uv> venv' lines come from guarded attempts only, and attempts
\* never overlap: an invocation that finds the flag set sends nothing, no two
\* invocations are inside the try at once, and an attempt sends at most one
\* '<uv> venv' line on its normal path plus at most one from its catch block.
C1_OneDispatchPerAttempt ==
    /\ \A i \in Callers : exitPath[i] = "inProgress" => sent[i] = << >>
    /\ \A i, j \in Callers : (i # j /\ InAttempt(i)) => ~InAttempt(j)
    /\ \A i \in Callers :
         /\ Has(sent[i], "uv venv") => (InAttempt(i) \/ AttemptReturned(i))
         /\ Count(sent[i], "uv venv") <= (IF exitPath[i] = "exception" THEN 2 ELSE 1)

\* C1 witness: the second bootstrap found the flag set and returned without sending,
\* while the first one has dispatched its single '<uv> venv'.
C1_Witness ==
    /\ overlap
    /\ exitPath["command"] = "inProgress"
    /\ pc["startup"] = "poll"
    /\ VenvLines = 1

\* C2: venvCreationInProgress is true whenever an invocation is suspended inside the
\* try (so it was set before the first await, hence before any terminal text of the
\* attempt), every line an attempt sends is sent with the flag set, and the flag is
\* false in the state in which a createVenvIfNeeded that ran its try returns, on
\* every exit path.
C2_GuardLifecycle ==
    /\ [](\A i \in Callers : InAttempt(i) => venvCreationInProgress)
    /\ [][\A i \in Callers :
            /\ (~venvExists[i] /\ sent'[i] # sent[i]) => venvCreationInProgress
            /\ (pc[i] # "done" /\ pc'[i] = "done" /\ AttemptReturned(i)')
                 => ~venvCreationInProgress']_vars

\* C2 witness: one attempt returned through the catch block, another one through the
\* polling loop, and the flag is false.
C2_Witness ==
    /\ ~venvCreationInProgress
    /\ \E i, j \in Callers : /\ exitPath[i] = "exception"
                             /\ exitPath[j] \in {"ready", "timeout"}

\* C3 (as claimed): the activation line for an existing environment is sent only if
\* .venv exists at the moment it is sent.
C3_ActivateOnlyIfPresent ==
    [][\A i \in Callers :
         (venvExists[i] /\ sent'[i] = Append(sent[i], activationCommand(osInfo))) => venvDir]_vars

\* C4 (as claimed): once a poll has observed directory and interpreter, the loop has
\* stopped after exactly attempt+1 <= 15 polls and the activation line was sent.
C4_ReadyAfterKPolls ==
    \A i \in Callers :
        (venvCreated[i] /\ pythonExists[i]) =>
            /\ pc[i] # "poll"
            /\ polls[i] = attempt[i] + 1
            /\ polls[i] <= maxAttempts
            /\ Has(sent[i], activationCommand(osInfo))

\* C5: an invocation still polling has made fewer than 15 polls, none of which
\* observed both; a polling phase that ends without both observed has made exactly
\* 15 polls, ends in the timed-out outcome (warning or error notification), and the
\* invocation has sent no activation line.
C5_TimeoutAfterMaxPolls ==
    \A i \in Callers :
        /\ pc[i] = "poll" => /\ polls[i] = attempt[i]
                             /\ polls[i] < maxAttempts
                             /\ ~(venvCreated[i] /\ pythonExists[i])
        /\ exitPath[i] = "timeout" =>
             /\ polls[i] = maxAttempts
             /\ ~(venvCreated[i] /\ pythonExists[i])
             /\ ~Has(sent[i], activationCommand(osInfo))
             /\ LastOf(notes[i]) \in {"venvWarning", "venvError"}

\* C5 witness: a polling phase ended by timeout.
C5_Witness == \E i \in Callers : exitPath[i] = "timeout" /\ polls[i] = maxAttempts

\* C6 (as claimed): a polling phase that timed out ends in the warning notification.
C6_TimeoutIsWarning ==
    \A i \in Callers : exitPath[i] = "timeout" => LastOf(notes[i]) = "venvWarning"

\* C6 (amended): a polling phase that timed out ends in the warning notification
\* when the last poll saw the directory (without interpreter) and in the error
\* notification when the last poll saw no directory.
C6_TimeoutNotification ==
    \A i \in Callers :
        exitPath[i] = "timeout" =>
            LastOf(notes[i]) = (IF venvCreated[i] THEN "venvWarning" ELSE "venvError")

\* C6 witness: a timeout whose last poll saw no directory, reported as an error.
C6_Witness ==
    \E i \in Callers : /\ exitPath[i] = "timeout"
                       /\ ~venvCreated[i]
                       /\ LastOf(notes[i]) = "venvError"

\* the notifications createVenvIfNeeded shows after the polling loop
OutcomeNotes(i) == Count(notes[i], "created") + Count(notes[i], "venvWarning")
                   + Count(notes[i], "venvError")

\* C7 (as claimed): after polling exactly one notification is shown, chosen by the
\* last poll: both present: success and the activation line; directory without
\* interpreter: warning; no directory: error; no activation in the last two cases.
C7_OutcomeByLastPoll ==
    \A i \in Callers :
        (polls[i] > 0 /\ pc[i] # "poll") =>
            /\ OutcomeNotes(i) = 1
            /\ (venvCreated[i] /\ pythonExists[i]) =>
                  (Has(notes[i], "created") /\ Has(sent[i], activationCommand(osInfo)))
            /\ (venvCreated[i] /\ ~pythonExists[i]) =>
                  (Has(notes[i], "venvWarning") /\ ~Has(sent[i], activationCommand(osInfo)))
            /\ ~venvCreated[i] =>
                  (Has(notes[i], "venvError") /\ ~Has(sent[i], activationCommand(osInfo)))

\* C8: the try is left for 'await getUvCommand()' (and so for the dispatch and the
\* polling) only in a step that found .venv absent; an invocation that found it
\* present at that check has sent no line at all and has not polled.
C8_RecheckSkipsCreation ==
    /\ [][\A i \in Callers :
            (pc[i] # "getUvCommand" /\ pc'[i] = "getUvCommand") => ~venvDir]_vars
    /\ [](\A i \in Callers :
            exitPath[i] = "recheck" => (sent[i] = << >> /\ polls[i] = 0))

\* C8 witness: an invocation that read venvExists = false returned at the re-check.
C8_Witness ==
    \E i \in Callers : exitPath[i] = "recheck" /\ ~venvExists[i] /\ venvDir

\* C9 (as claimed): no invocation sends a second '<uv> venv' line.
C9_NoSecondVenvLine ==
    \A i \in Callers : Count(sent[i], "uv venv") <= 1

\* C9 (amended): an attempt that fails with an exception makes exactly one fallback
\* dispatch from its catch block (PATH export and '<uv> venv', or nothing when that
\* send throws too) and then returns without polling further, activating or
\* notifying; otherwise an invocation sends at most one '<uv> venv' line, and the
\* installer is started at most once per invocation.
C9_SingleFallback ==
    \A i \in Callers :
        /\ exitPath[i] # "exception" => Count(sent[i], "uv venv") <= 1
        /\ exitPath[i] = "exception" =>
             /\ sent[i] \in { << >>,
                              <<"export PATH", "uv venv">>,
                              <<"export PATH", "uv venv", "export PATH", "uv venv">> }
             /\ OutcomeNotes(i) = 0
        /\ Count(notes[i], "installing") <= 1

\* C9 witness: an attempt whose activation send threw has sent '<uv> venv' twice.
C9_Witness ==
    \E i \in Callers : exitPath[i] = "exception" /\ Count(sent[i], "uv venv") = 2

\* C10: checkUvInstalled has resolved false only when no probe is outstanding, the
\* PATH probe and all four well-known-path probes have completed, and each failed.
C10_FalseOnlyAfterAllProbes ==
    (locFn = "check" /\ Has(resolved, "false")) =>
        /\ pending = {}
        /\ checkedPaths = Len(commonPaths)
        /\ \A p \in {0} \cup PathProbes : ~probeOk[p]

\* C10 witness: all five probes failed and checkUvInstalled resolved false.
C10_Witness == locFn = "check" /\ resolved = <<"false">>

\* the probes that respond, and the first of them in the order the code lists them
Responding == {p \in {0} \cup PathProbes : probeOk[p]}
FirstResponding == CHOOSE p \in Responding : \A q \in Responding : p <= q

\* C11 (as claimed): the value a call resolves to depends on the probe outcomes
\* only. The callbacks may complete in list order, so a result that is a function of
\* the outcomes is the one list order gives: the first responding candidate (true
\* for checkUvInstalled), or the not-found value when none responds.
C11_ResultDeterminedByOutcomes ==
    resolved # << >> =>
        resolved[1] = ( IF Responding = {} THEN
                            (IF locFn = "check" THEN "false" ELSE "uv")
                        ELSE IF locFn = "check" THEN "true"
                        ELSE IF FirstResponding = 0 THEN "uv"
                        ELSE "\"" \o commonPaths[FirstResponding] \o "\"" )

\* C12: getUvCommand launches the well-known-path probes only after the bare-name
\* probe failed; when the bare name responds it resolves 'uv' with no path probe
\* launched; otherwise what it resolves to is the quoted path of a location that
\* responds, or the bare name with all four path probes completed and failed.
C12_CommandResolution ==
    locFn = "cmd" =>
        /\ (pending \cap PathProbes # {} \/ checkedPaths > 0) => ~probeOk[0]
        /\ (probeOk[0] /\ 0 \notin pending) =>
              (resolved = <<"uv">> /\ pending = {} /\ checkedPaths = 0)
        /\ (~probeOk[0] /\ resolved # << >>) =>
              \/ \E p \in PathProbes :
                    probeOk[p] /\ resolved[1] = "\"" \o commonPaths[p] \o "\""
              \/ /\ resolved[1] = "uv"
                 /\ pending = {}
                 /\ checkedPaths = Len(commonPaths)
                 /\ \A p \in PathProbes : ~probeOk[p]

\* C12 witness: the bare name failed and getUvCommand resolved the quoted path of
\* the third location while another probe is still outstanding.
C12_Witness ==
    /\ locFn = "cmd"
    /\ ~probeOk[0]
    /\ resolved = <<"\"/usr/local/bin/uv\"">>
    /\ pending # {}

\* the step in which invocation i calls createVenvIfNeeded: it leaves a tool check
\* and either suspends inside the venv steps or records how it left them
EntersVenvSteps(i) ==
    /\ pc[i] \in {"checkUv", "verifyUv"}
    /\ pc'[i] = "getUvCommand" \/ exitPath'[i] # "none"

\* C13: createVenvIfNeeded is called only in a step where the tool responds, i.e.
\* the check that just resolved reported it available. A failed installer ends the
\* bootstrap at once with the error notifications and false (one install started,
\* none after it); an install followed by a re-check that still misses the tool
\* ends it with the warning and false. In both cases the bootstrap has sent nothing
\* and never entered the venv steps.
C13_VenvStepsOnlyWithTool ==
    /\ [][\A i \in Callers :
            /\ EntersVenvSteps(i) => uvPresent
            /\ (pc[i] = "installUv" /\ pc'[i] \notin {"installUv", "restart"}) =>
                  /\ pc'[i] = "done"
                  /\ notes'[i] = <<"installing", "installError", "installFailed">>
            /\ (pc[i] = "verifyUv" /\ pc'[i] # "verifyUv" /\ ~uvPresent) =>
                  /\ pc'[i] = "done"
                  /\ notes'[i] = <<"installing", "notFound">>]_vars
    /\ [](\A i \in Callers :
            (pc[i] = "done" /\ LastOf(notes[i]) \in {"installFailed", "notFound"}) =>
                /\ result[i] = FALSE
                /\ sent[i] = << >>
                /\ exitPath[i] = "none"
                /\ Count(notes[i], "installing") = 1)

\* C13 witness: one bootstrap ended on a failed installer, the other on a re-check
\* that missed the tool after a successful install.
C13_Witness ==
    /\ pc["startup"] = "done" /\ pc["command"] = "done"
    /\ notes["startup"] = <<"installing", "notFound">>
    /\ notes["command"] = <<"installing", "installError", "installFailed">>
    /\ result["startup"] = FALSE /\ result["command"] = FALSE

\* C14: on an OS record that is neither Windows, macOS nor Linux a call of installUv
\* has, as soon as it is made, resolved false with no process started; on a
\* supported one it has started exactly one process, has resolved nothing while the
\* process runs, and resolves true exactly when the process exited without error.
C14_InstallOutcome ==
    \A c \in InstallCalls :
        insPc[c] # "idle" =>
            IF ~osInfo.isWindows /\ ~osInfo.isMacOS /\ ~osInfo.isLinux
            THEN /\ insPc[c] = "returned"
                 /\ insResolved[c] = <<FALSE>>
                 /\ execs[c] = 0
            ELSE /\ execs[c] = 1
                 /\ insPc[c] = "exec" => insResolved[c] = << >>
                 /\ insPc[c] = "returned" =>
                       /\ exitError[c] # "none"
                       /\ insResolved[c] = <<exitError[c] = "clean">>

\* C14 witness: on FreeBSD one call has returned false with no process started
\* while another call has not been made yet.
C14_Witness ==
    /\ osInfo.platform = "freebsd"
    /\ insPc[1] = "returned" /\ insResolved[1] = <<FALSE>> /\ execs[1] = 0
    /\ insPc[2] = "idle"

\* terminals with the fixed name that are running and report no exit status
LiveFixedName == {k \in 1..Len(hostTerms) :
                    hostTerms[k].name = "pyCage" /\ hostTerms[k].status = "live"}

\* C15 (as claimed): the manager never has two live terminals with the fixed name
\* at the same time.
C15_AtMostOneLiveFixedName == Cardinality(LiveFixedName) <= 1

\* C15 (amended): a call creates a terminal named 'pyCage' only when the first
\* terminal the host lists under that name is missing, reports an exit status or
\* fails the liveness probe (its state is falsy or reading it throws); when that
\* terminal reports no exit status and passes the probe the call returns it and
\* creates nothing.
C15_CreatesOnlyIfFirstUnusable ==
    [][tmCalls' = tmCalls + 1 =>
         LET k == existingTerminal
             made == Len(hostTerms') > Len(hostTerms)
         IN  /\ (made /\ hostTerms'[Len(hostTerms')].name = "pyCage") =>
                   \/ k = 0
                   \/ hostTerms[k].status = "exited"
                   \/ tmLast'.probe \in {"falsy", "throws"}
             /\ (k # 0 /\ hostTerms[k].status # "exited" /\ tmLast'.probe = "truthy") =>
                   (~made /\ tmLast'.returned = k)]_vars

\* C15 witness: the last call found the first 'pyCage' terminal alive, its probe
\* failed, and the call created a second 'pyCage' terminal next to it.
C15_Witness ==
    /\ tmLast.first # 0 /\ tmLast.probe \in {"falsy", "throws"}
    /\ tmLast.created # 0
    /\ hostTerms[tmLast.created].name = "pyCage"
    /\ hostTerms[tmLast.first].status = "live"
    /\ Cardinality(LiveFixedName) = 2

\* C16 (as claimed): a getOrCreateTerminal call never throws and never returns a
\* terminal that reports an exit status; when the lookup or the creation of the
\* 'pyCage' terminal failed it returns a terminal it created under a
\* timestamp-suffixed name.
C16_NeverThrows ==
    [][tmCalls' = tmCalls + 1 =>
         /\ ~tmLast'.threw
         /\ tmLast'.returned # 0
         /\ hostTerms'[tmLast'.returned].status # "exited"
         /\ tmLast'.failed =>
               /\ tmLast'.created = tmLast'.returned
               /\ hostTerms'[tmLast'.returned].name = "pyCage-" \o ToString(now)]_vars

\* list holds the entries of sub in their order (not necessarily adjacent)
RECURSIVE InOrder(_, _)
InOrder(sub, list) ==
    IF Len(sub) = 0 THEN TRUE
    ELSE IF Len(list) = 0 THEN FALSE
    ELSE IF sub[1] = list[1] THEN InOrder(Tail(sub), Tail(list))
    ELSE InOrder(sub, Tail(list))

\* C17 (as claimed): once setupTerminalEnvironment ran on a terminal that takes the
\* text, one export line was sent; its directory list has no duplicates, holds the
\* four well-known directories in their order and, when the tool path holds a
\* separator, starts with the directory of the tool (the tool path without its
\* quotes and without its last component).
C17_ToolDirFirst ==
    (envPc = "done" /\ envUvPath # << >> /\ envTermOk) =>
        /\ Len(pathSent) = 1
        /\ \A i, j \in 1..Len(pathSent[1]) : pathSent[1][i] = pathSent[1][j] => i = j
        /\ InOrder(pathAdditions(homedir), pathSent[1])
        /\ (\E i \in 1..Len(envUvPath) : IsSep(envUvPath[i])) =>
              Split(pathSent[1][1]) = DropLast(Split(StripQuotes(envUvPath)))

\* the name itself begins with a rank prefix: digits followed by a dot
HasRankPrefix(name) ==
    \E d \in 1..(Len(name) - 1) :
        /\ \A i \in 1..d : name[i] \in {"0", "1", "2", "3", "4", "5", "6", "7", "8", "9"}
        /\ name[d + 1] = "."

\* C19 (as claimed): for a project name without a rank prefix of its own,
\* getProjectNameFromQuickPick returns exactly the name from the label built for it
\* at any rank, and returns the bare name unchanged when the label is that name.
C19_StripInvertsLabel ==
    (lblPc \in {"stripped", "rawStripped"} /\ lblName # << >> /\ ~HasRankPrefix(lblName))
        => lblOut = << lblName >>

\* the records whose project holds the query, compared without regard to case
CaseFold(c) == IF c = "A" THEN "a" ELSE IF c = "B" THEN "b" ELSE c
Matching(query) ==
    {i \in 1..Len(names) :
        \E o \in 0..(Len(names[i].project) - Len(query)) :
            \A j \in 1..Len(query) :
                CaseFold(names[i].project[o + j]) = CaseFold(query[j])}
EqualsQuery(i, query) ==
    /\ Len(names[i].project) = Len(query)
    /\ \A j \in 1..Len(query) : CaseFold(names[i].project[j]) = CaseFold(query[j])

\* the label rank k gives a name: two digits at least, a dot, a space, the name
RankLabel(k, name) == (IF k < 10 THEN << "0" >> ELSE << >>) \o Digits(k)
                      \o << ".", " " >> \o name

\* C18 (as claimed): for a non-empty query, when some record's project equals the
\* query case-insensitively, the first displayed item (rank 01) is such a record.
C18_ExactMatchFirst ==
    (qpValue # << >> /\ \E i \in 1..Len(names) : EqualsQuery(i, qpValue)) =>
        /\ qpItems # << >>
        /\ \E i \in 1..Len(names) :
              EqualsQuery(i, qpValue) /\ qpItems[1].label = RankLabel(1, names[i].project)

\* C20: for a non-empty query the displayed list has at most 200 items and at most
\* as many as there are matching records; every item is a matching record under the
\* label of its position, so the ranks are 1..n in display order.
C20_DisplayedListBounded ==
    qpValue # << >> =>
        LET matching == Matching(qpValue)
        IN  /\ Len(qpItems) <= 200
            /\ Len(qpItems) <= Cardinality(matching)
            /\ \A k \in 1..Len(qpItems) :
                  \E i \in matching :
                      qpItems[k].label = RankLabel(k, names[i].project)

\* C20 witness: more than 200 records match the query and 200 items are displayed.
C20_Witness ==
    /\ qpValue # << >>
    /\ Cardinality(Matching(qpValue)) > 200
    /\ Len(qpItems) = 200

\* the place a record takes among the records idx when they are ordered by download
\* count, greatest first, records of equal count in the order of the list
DownloadRank(i, idx) ==
    Cardinality({j \in idx : \/ names[j].download_count > names[i].download_count
                             \/ /\ names[j].download_count = names[i].download_count
                                /\ j < i}) + 1

\* the items are the records idx in that order, cut at 200, each under the label of
\* its place and with its download count
ShowsByDownloads(items, idx) ==
    /\ Len(items) = Min(200, Cardinality(idx))
    /\ \A i \in idx :
          DownloadRank(i, idx) <= 200 =>
              /\ items[DownloadRank(i, idx)].label
                    = RankLabel(DownloadRank(i, idx), names[i].project)
              /\ items[DownloadRank(i, idx)].description = names[i].download_count

\* the records that have a project name
Named == {i \in 1..Len(names) : names[i].project # << >>}

\* C21 (as claimed): when the query becomes empty nothing is filtered out: the items
\* are all records, up to the cap, by download count descending, equal counts in
\* their original order.
C21_EmptyQueryShowsAll ==
    [][(qpValue # << >> /\ qpValue' = << >>)
          => ShowsByDownloads(qpItems', 1..Len(names))]_vars

\* C21 (amended): when the query becomes empty the items are the records that have
\* a non-empty project name, up to the cap of 200, by download count descending,
\* records of equal count in their original relative order; a record whose project
\* is empty is left out.
C21_EmptyQueryShowsNamed ==
    [][(qpValue # << >> /\ qpValue' = << >>) => ShowsByDownloads(qpItems', Named)]_vars

\* C21 witness: the query was emptied over a list of more than 200 named records in
\* which records of equal count and different names follow one another; 200 items
\* are displayed.
C21_Witness ==
    /\ qpValue = << >>
    /\ Len(qpItems) = 200
    /\ Cardinality(Named) > 200
    /\ \E i, j \in Named :
          /\ i < j
          /\ names[i].download_count = names[j].download_count
          /\ names[i].project # names[j].project

\* names and terms compared without regard to case
Folded(str) == [i \in 1..Len(str) |-> CaseFold(str[i])]
IsDelimiter(c) == c \in {"-", "_"}
\* term stands in name from position i on
StandsAt(term, name, i) ==
    /\ i + Len(term) - 1 <= Len(name)
    /\ \A j \in 1..Len(term) : name[i + j - 1] = term[j]
\* term is one of the pieces the delimiters '-' and '_' cut name into
WholeToken(term, name) ==
    /\ \A j \in 1..Len(term) : ~IsDelimiter(term[j])
    /\ \E i \in 1..Len(name) :
          /\ StandsAt(term, name, i)
          /\ i = 1 \/ IsDelimiter(name[i - 1])
          /\ i + Len(term) - 1 = Len(name) \/ IsDelimiter(name[i + Len(term)])
\* the characters of term occur in name in this order
InOrderIn(term, name) ==
    \E f \in [1..Len(term) -> 1..Len(name)] :
        /\ \A j \in 1..Len(term) : name[f[j]] = term[j]
        /\ \A j, k \in 1..Len(term) : j < k => f[j] < f[k]
FracEq(x, y) == x[1] * y[2] = y[1] * x[2]

\* the tiers, in their order of precedence
Tier(term, name) ==
    IF term = << >> \/ name = << >> THEN <<0, 1>>
    ELSE IF term = name THEN <<1, 1>>
    ELSE IF StandsAt(term, name, 1) THEN <<6, 10>>
    ELSE IF WholeToken(term, name) THEN <<4, 10>>
    ELSE IF \E i \in 1..Len(name) : StandsAt(term, name, i) THEN <<2, 10>>
    ELSE IF InOrderIn(term, name) THEN <<Len(term), 10 * Len(name)>>
    ELSE <<0, 1>>

\* C22: calculateKeywordSimilarity returns a value in [0,1] that is the tier of the
\* query and the name compared without regard to case: 1.0 exact match, else 0.6
\* name starts with the query, else 0.4 the query is a whole '-'/'_'-delimited token
\* of the name, else 0.2 the name contains the query, else (matched characters /
\* name length) * 0.1 when the query's characters occur in the name in order, else
\* 0; an empty query or an empty name gives 0.
C22_SimilarityTiers ==
    simPc = "returned" =>
        /\ 0 <= simScore[1] /\ simScore[1] <= simScore[2]
        /\ FracEq(simScore, Tier(Folded(simTerm), Folded(simName)))

\* C22 witness: a call returned 0.4 for a query that is a token of the name but not
\* its start.
C22_Witness ==
    /\ simPc = "returned"
    /\ simScore = <<4, 10>>
    /\ WholeToken(Folded(simTerm), Folded(simName))
    /\ ~StandsAt(Folded(simTerm), Folded(simName), 1)

\* C24 (as claimed): for the query 'num' the similarity computed for 'numpy' and for
\* 'num2words' is the 'merely contains' tier 0.2.
C24_ContainsTierForNum ==
    (simPc = "returned" /\ simTerm = num /\ simName \in {numpy, num2words})
        => FracEq(simScore, <<2, 10>>)

\* C24 (amended): for the query 'num' the similarity computed for 'numpy' and for
\* 'num2words' is the 'starts with' tier 0.6 for each of them: both names begin
\* with 'num', and that test is made before the 'contains' test.
C24_StartsWithTierForNum ==
    (simPc = "returned" /\ simTerm = num /\ simName \in {numpy, num2words})
        => FracEq(simScore, <<6, 10>>)

\* C24 witness: the call for 'num' and 'num2words' returned.
C24_Witness ==
    simPc = "returned" /\ simTerm = num /\ simName = num2words

\* C23: for the list [numpy with 1000000 downloads, num2words with 500 downloads] and
\* the query 'num' both records are displayed, 'numpy' at rank 01 and 'num2words' at
\* rank 02, under the square scaling and under the square-root scaling alike.
C23_NumpyAboveNum2words ==
    (names = ScenarioList /\ qpValue = num) =>
        /\ Len(qpItems) = 2
        /\ qpItems[1].label = RankLabel(1, numpy)
        /\ qpItems[2].label = RankLabel(2, num2words)

\* C23 witness: the query 'num' was typed over that list with the square-root
\* scaling in use, and two items are displayed.
C23_Witness ==
    /\ names = ScenarioList /\ qpValue = num /\ scaling = "root"
    /\ Len(qpItems) = 2

\* C25 (as claimed): searching never mutates the package list: after any sequence
\* of query changes the list holds the same records in the same order with the same
\* fields as when it was fetched, so no record carries a score, and none that was
\* computed for another query.
C25_ListNeverMutated ==
    /\ [][names' = names]_vars
    /\ [](qpPc # "hidden" => \A i \in 1..Len(names) : weightedScores[i] = << >>)

\* C26 (as claimed): no failure of CommandBase.executeUvCommand reaches the host as
\* an exception: an invocation that called it never ends by throwing, also when
\* obtaining the terminal or sending the text raised an exception.
C26_NoThrowToHost ==
    command # NoCommand => cmdPc # "threw"

\* C27 (as claimed): with no workspace folder open the bootstrap sends no text, and
\* an invocation of install-to-venv (addPackageLocal), install-globally
\* (addPackageGlobal), generate-requirements (makeRequirements) or debug-report
\* (debugInterpreter) sends no text to a terminal and, once it has ended, has
\* returned after showing a message.
C27_NoWorkspaceAborts ==
    ~workspaceFolder =>
        /\ bootLines = << >>
        /\ cmd \in {"addPackageLocal", "addPackageGlobal", "makeRequirements",
                    "debugInterpreter"} =>
              /\ cmdSent = << >>
              /\ cmdPc \in {"returned", "threw"} =>
                    (cmdPc = "returned" /\ cmdNotes # << >>)

\* a package-selection command was invoked and the invocation is over or suspended
Selecting == cmd \in {"addPackageLocal", "addPackageGlobal", "uvAddPackage"}

\* C28 (as claimed): after a failed fetch the list is empty, the commands are
\* registered and the bootstrap was started, and every invocation of a
\* package-selection command has returned with the 'Package list not available'
\* error as its only message, no selection prompt shown and no text sent.
C28_ListUnavailable ==
    fetched = "failed" =>
        /\ names = << >>
        /\ extPc = "active" /\ startupBoot # "none"
        /\ Selecting =>
              /\ cmdPc = "returned" /\ cmdNotes = << "listUnavailable" >>
              /\ prompts = 0 /\ cmdSent = << >>

\* C28 (amended): after a failed fetch the list is empty, the commands are
\* registered and the bootstrap was started; an invocation of install-to-venv or
\* install-globally, and of uv add with a workspace folder open, returns with the
\* 'Package list not available' error as its only message; uv add without a
\* workspace folder returns with the no-workspace error instead; in every case no
\* selection prompt is shown and no text is sent to a terminal.
C28_ListUnavailableOrNoWorkspace ==
    fetched = "failed" =>
        /\ names = << >>
        /\ extPc = "active" /\ startupBoot # "none"
        /\ Selecting =>
              /\ cmdPc = "returned"
              /\ cmdNotes = IF cmd = "uvAddPackage" /\ ~workspaceFolder
                            THEN << "noWorkspace" >> ELSE << "listUnavailable" >>
              /\ prompts = 0 /\ cmdSent = << >>

\* C28 witness: the fetch failed, the bootstrap of activate has run, and uv add was
\* invoked with a workspace folder open and ended with the list error.
C28_Witness ==
    /\ fetched = "failed" /\ startupBoot = "done"
    /\ cmd = "uvAddPackage" /\ workspaceFolder
    /\ cmdPc = "returned" /\ cmdNotes = << "listUnavailable" >>

\* the invocation has started a setupUvAsync run
BootstrapStarted ==
    cmdPc = "bootstrap" \/ Has(cmdNotes, "setupDone") \/ Has(cmdNotes, "setupError")

C30_DismissalEndsInvocation ==
    /\ []((prompts = 1 /\ qpPc = "hidden") =>
              /\ resolveCalls = 1 /\ qpResolved = << >>
              /\ cmdPc \in {"pick", "pipPick", "returned"}
              /\ cmdSent = << >> /\ command = NoCommand)
    /\ [][(cmdPc = "dependencyType" /\ cmdPc' = "returned") =>
              (cmdSent' = << >> /\ command' = NoCommand)]_vars
    /\ [][(cmdPc \in {"pick", "pipPick"} /\ qpPc = "hidden" /\ cmdPc' # cmdPc) =>
              cmdPc' = "returned"]_vars

\* C30 witness: uv add showed its quick pick, the user dismissed it, and the
\* invocation has returned.
C30_Witness ==
    /\ cmd = "uvAddPackage" /\ prompts = 1
    /\ qpPc = "hidden" /\ resolveCalls = 1
    /\ cmdPc = "returned" /\ cmdSent = << >>

\* the invocations suspended between 'venvCreationInProgress = true' and the finally
Holders == {i \in Callers : InAttempt(i)}

\* C31: at most one createVenvIfNeeded invocation is between the assignment of true
\* and the finally block; the flag is true exactly while such an invocation exists;
\* and an invocation that finds the flag true returns in that very step, leaving the
\* flag true and sending nothing.
C31_CreationSectionExclusive ==
    /\ [](Cardinality(Holders) <= 1)
    /\ [](venvCreationInProgress <=> Holders # {})
    /\ [][\A i \in Callers :
            (exitPath[i] # "inProgress" /\ exitPath'[i] = "inProgress") =>
                /\ venvCreationInProgress /\ venvCreationInProgress'
                /\ Holders' = Holders /\ Holders # {} /\ i \notin Holders
                /\ pc'[i] = "done"
                /\ sent'[i] = sent[i]]_vars

\* C31 witness: the command's bootstrap polls inside the creation section with the
\* flag set, and the startup bootstrap, overlapping it, found the flag set and
\* returned.
C31_Witness ==
    /\ venvCreationInProgress
    /\ Holders = {"command"}
    /\ pc["command"] = "poll" /\ polls["command"] > 0
    /\ exitPath["startup"] = "inProgress"

\* C32 (as claimed): no invocation sends an activation line while another invocation
\* holds venvCreationInProgress and has not yet observed both directory and
\* interpreter.
C32_NoActivationDuringCreation ==
    [][\A i \in Callers :
         sent'[i] = Append(sent[i], activationCommand(osInfo)) =>
            ~\E j \in Callers \ {i} :
                /\ venvCreationInProgress
                /\ InAttempt(j)
                /\ ~(venvCreated[j] /\ pythonExists[j])]_vars

\* no setupUvAsync invocation is suspended at an await
NoneRunning == \A i \in Callers : pc[i] \in {"idle", "done"}

\* C33: when process callbacks and timers eventually fire, every setupUvAsync
\* invocation that was started eventually returns, having made at most 15 polls;
\* from every state venvCreationInProgress eventually is false; and the flag is false
\* whenever no invocation is running.
C33_BootstrapTerminates ==
    /\ \A i \in Callers : (pc[i] # "idle") ~> (pc[i] = "done")
    /\ []<>(~venvCreationInProgress)
    /\ [](\A i \in Callers : polls[i] <= maxAttempts)
    /\ [](NoneRunning => ~venvCreationInProgress)

\* C33 witness: both invocations have returned, one of them after the full 15 polls
\* of the creation path, and the flag is false.
C33_Witness ==
    /\ \A i \in Callers : pc[i] = "done" /\ result[i] \in BOOLEAN
    /\ \E i \in Callers : polls[i] = maxAttempts
    /\ ~venvCreationInProgress

\* C34: for every combination of probe outcomes and every completion order of the
\* callbacks, the promise of checkUvInstalled / getUvCommand has resolve() called at
\* most once, it has been called once all launched probe callbacks have run (the
\* promise is not left pending), and a callback that runs after the call, success or
\* failure, calls it no more.
C34_ResolvedExactlyOnce ==
    /\ [](Len(resolved) <= 1)
    /\ [](pending = {} => Len(resolved) = 1)
    /\ [][resolved # << >> => resolved' = resolved]_vars

\* C34 witness: the bare-name probe failed, two well-known locations respond, the
\* later one in the list completed first and settled the result, and all four
\* callbacks have run.
C34_Witness ==
    /\ ~probeOk[0] /\ probeOk[1] /\ probeOk[3]
    /\ foundPath = 3
    /\ pending = {} /\ checkedPaths = Len(commonPaths)
    /\ Len(resolved) = 1

\* createVenvIfNeeded of invocation i was called with venvExists = true and returned
ExistingReturned(i) == venvExists[i] /\ exitPath[i] # "none"

\* C35 (as claimed): a createVenvIfNeeded call that was passed venvExists = true has,
\* when it returns, sent exactly one line, the activation line of the platform, no
\* '<uv> venv' line, has not polled, and the step in which it runs leaves
\* venvCreationInProgress as it was.
C35_ExistingActivatesOnce ==
    /\ [](\A i \in Callers :
            ExistingReturned(i) =>
                /\ sent[i] = << activationCommand(osInfo) >>
                /\ polls[i] = 0)
    /\ [][\A i \in Callers :
            (~ExistingReturned(i) /\ ExistingReturned(i)') =>
                venvCreationInProgress' = venvCreationInProgress]_vars

\* C36: the step in which the re-check inside the try finds .venv ends the
\* invocation: .venv exists, nothing is sent (so no activation line), nothing is
\* shown beyond the message setupUvAsync showed before the call, the flag is
\* released and setupUvAsync returns true. Such an invocation has sent no line and
\* shown none of the venv notifications.
C36_RecheckEndsSilently ==
    /\ [][\A i \in Callers :
            (exitPath[i] = "none" /\ exitPath'[i] = "recheck") =>
                /\ venvDir
                /\ sent'[i] = sent[i]
                /\ \E m \in {"uvAlready", "installed"} : notes'[i] = Append(notes[i], m)
                /\ pc'[i] = "done" /\ result'[i] = TRUE
                /\ ~venvCreationInProgress']_vars
    /\ [](\A i \in Callers :
            exitPath[i] = "recheck" =>
                /\ ~Has(sent[i], activationCommand(osInfo))
                /\ ~Has(notes[i], "activated")
                /\ OutcomeNotes(i) = 0)

\* C36 witness: a bootstrap has finished with true through the re-check, .venv and
\* its interpreter exist, and the bootstrap has sent nothing to the terminal.
C36_Witness ==
    \E i \in Callers :
        /\ pc[i] = "done" /\ exitPath[i] = "recheck" /\ result[i] = TRUE
        /\ venvDir /\ python
        /\ notes[i] = <<"uvAlready">>
        /\ sent[i] = << >>

LastCheckAvailable(i) ==
    IF Has(notes[i], "installed") \/ Has(notes[i], "notFound")
    THEN Has(notes[i], "installed")
    ELSE Has(notes[i], "uvAlready")

\* C38: setupUvAsync has returned true exactly when its last tool check reported the
\* tool available and no exception reached its catch block, whatever
\* createVenvIfNeeded did: it is true after a timeout with either notification, after
\* the no-op on a creation in progress, after the re-check, the missing-workspace
\* error and an attempt that ended in createVenvIfNeeded's own catch block.
C38_ResultIsToolAvailability ==
    \A i \in Callers :
        pc[i] = "done" =>
            /\ result[i] \in BOOLEAN
            /\ result[i] <=> (LastCheckAvailable(i) /\ ~Has(notes[i], "setupError"))
            /\ exitPath[i] \in {"existing", "inProgress", "noWorkspace", "recheck",
                                "ready", "timeout", "exception"} => result[i]
            /\ exitPath[i] = "threw" => ~result[i]

\* C38 witness: one bootstrap returned true after its creation timed out with the
\* error notification, the other returned true after the no-op on the creation in
\* progress.
C38_Witness ==
    \E i, j \in Callers :
        /\ pc[i] = "done" /\ exitPath[i] = "timeout" /\ LastOf(notes[i]) = "venvError"
        /\ result[i] = TRUE
        /\ pc[j] = "done" /\ exitPath[j] = "inProgress" /\ result[j] = TRUE

\* the invocations whose installer process is running ('await installUv(osInfo)')
Installing == {i \in Callers : pc[i] = "installUv"}

\* C39: a bootstrap whose tool check resolves while the tool is missing starts its
\* installer in that step, whatever venvCreationInProgress is and whatever the other
\* invocation is doing (it may be installing itself); the step neither reads nor
\* changes the flag, and nothing inside the creation section is needed for it.
C39_InstallNotGuarded ==
    /\ [][\A i \in Callers :
            (pc[i] = "checkUv" /\ pc'[i] # "checkUv" /\ ~uvPresent) =>
                /\ pc'[i] = "installUv"
                /\ Installing' = Installing \cup {i}
                /\ notes'[i] = Append(notes[i], "installing")
                /\ venvCreationInProgress' = venvCreationInProgress]_vars
    /\ [](\A i \in Installing : notes[i] = <<"installing">> /\ sent[i] = << >>)

\* C39 witness: the startup bootstrap and the one started by 'Install uv' overlap,
\* both saw the tool missing, and both installer processes are running.
C39_Witness ==
    /\ overlap
    /\ Installing = Callers
    /\ ~uvPresent
    /\ ~venvCreationInProgress

\* lo <= x <= hi for fractions
FracBetween(lo, x, hi) == ~FracGt(lo, x) /\ ~FracGt(x, hi)

\* C40: after updateItems ran for a non-empty query, for every record that passed
\* the substring filter: its similarity to the query is at least 0.2 (one of the
\* tiers 1.0, 0.6, 0.4, 0.2, never the subsequence value); its download count is at
\* most the greatest count of all matches and the score written on it is the one
\* that count as the maximum gives (so the maximum taken over the 20 most
\* downloaded matches was the greatest of all), which puts the normalised download
\* score in [0, 1]; and the written score lies in [0.04, 1] (for the module that
\* takes the root of the download score: its two components lie in [0, 1] and
\* [0.2, 1]).
C40_ScoreRange ==
    qpValue # << >> =>
        LET filter == toLowerCase(qpValue)
            matching == Matching(qpValue)
            counts == {names[i].download_count : i \in matching}
            maxAll == IF counts = {} THEN 0
                      ELSE CHOOSE m \in counts : \A c \in counts : c <= m
        IN  \A i \in matching :
                LET sim == Reduce(calculateKeywordSimilarity(filter, names[i].project))
                    d == downloadScoreOf(names[i], maxAll)
                IN  /\ sim \in {<<1, 1>>, <<3, 5>>, <<2, 5>>, <<1, 5>>}
                    /\ FracBetween(<<0, 1>>, d, <<1, 1>>)
                    /\ weightedScores[i] # << >>
                    /\ IF scaling = "square"
                       THEN /\ weightedScores[i][1] =
                                 calculateWeightedScore(names[i], filter, maxAll)
                            /\ FracBetween(<<4, 100>>, weightedScores[i][1], <<1, 1>>)
                       ELSE /\ weightedScores[i][1] = <<d[1], d[2], sim[1], sim[2]>>
                            /\ FracBetween(<<2, 10>>, sim, <<1, 1>>)

\* C40 witness: more than 20 records match the query and the most downloaded of
\* them, which also has the name of the query, comes after 20 less downloaded
\* matches; its score is 1, and the score of a less downloaded one is below it.
C40_Witness ==
    /\ qpValue # << >> /\ scaling = "square"
    /\ LET matching == Matching(qpValue)
       IN  /\ Cardinality(matching) > TopMatches
           /\ \E i \in matching :
                 /\ Cardinality({j \in matching : j < i}) >= TopMatches
                 /\ \A j \in matching : j < i =>
                       /\ names[j].download_count < names[i].download_count
                       /\ weightedScores[j] # << >>
                       /\ FracGt(<<1, 1>>, weightedScores[j][1])
                 /\ weightedScores[i] = << <<1, 1>> >>

====
